---------------------------- MODULE Spec2Model ----------------------------
(***************************************************************************)
(* A model of the aigis conversational agent (tea-party/aigis): the        *)
(* relevance gate, thread reconstruction, context assembly, the tool-call  *)
(* generation loop and the memory writer of the Bluesky bot                *)
(* (crates/bluesky-bot/src/main.rs), the tool helpers of logi              *)
(* (crates/logi/src/tools/mod.rs) and the legacy ingestor (src/main.rs).   *)
(*                                                                         *)
(* Strings are sequences of segments, so that formatting, splitting,       *)
(* trimming and parsing are computed and not assumed.  Option<T> is a      *)
(* sequence of length at most one.                                         *)
(***************************************************************************)
EXTENDS Integers, Sequences, FiniteSets, TLC

VARIABLES
    fn, input, output,          \* a pure function, its argument and its result
    allowlist,                  \* PostListener.allowlist
    repertoire,                 \* the outputs the model gateway may answer with
    event,                      \* the Event handed to ingest
    pc,                         \* the position of ingest (its await points)
    result,                     \* what ingest returned: <<>>, <<"Ok">> or <<"Err", e>>
    riposte,                    \* the decoded RecordData (Option)
    thread,                     \* the reconstructed thread as chat messages
    post_data,                  \* the reconstructed thread as PostData
    messages,                   \* the conversation sent to the gateway
    response_accum,             \* the last model output
    last_tool_call,             \* Option<(name, args)>
    last_tool_call_times,       \* the repeat counter
    tool_calls,                 \* the batch parsed from response_accum
    loopState,                  \* INIT, AWAITING_MODEL, EXECUTE_TOOLS, AWAITING_FOLLOWUP, DONE, ABORTED
    gwLog,                      \* the gateway's calls: <<[req, resp]>>
    roundLog,                   \* the tool rounds: <<[calls, results]>>
    toolLog,                    \* the tool executions, in order
    fetchLog,                   \* the thread fetches
    embedLog,                   \* the embedding calls
    searchLog,                  \* the vector store queries
    created,                    \* the records created through the agent (replies)
    vdb,                        \* the points written to the vector store
    memtries,                   \* the local Vec<MemoryEntry> of ingest
    memory_entries,             \* the local Vec<MemoryEntry> built for the posts of the thread
    worker_count,               \* main: the size of the worker pool
    msg_rx,                     \* main: the messages in the channel of the jetstream
    message,                    \* dispatcher task: the message received, waiting for a permit
    semaphore,                  \* the permits the semaphore has left
    permit,                     \* the handler tasks that own a permit
    handlers,                   \* the handler task spawned for each message, and how it ended
    service,                    \* the LLMService: its system_prompt and its tools
    posts_ingested, ingest_errors, ingest_latency   \* the metrics

funVars  == <<fn, input, output>>
confVars == <<allowlist, repertoire>>
ctlVars  == <<response_accum, last_tool_call, last_tool_call_times, tool_calls, loopState>>
histVars == <<messages, gwLog, roundLog, toolLog>>
envVars  == <<fetchLog, embedLog, searchLog, created, vdb, memtries, memory_entries>>
metVars  == <<posts_ingested, ingest_errors, ingest_latency>>
ingVars  == <<event, pc, result, riposte, thread, post_data>>
poolVars == <<worker_count, msg_rx, message, semaphore, permit, handlers>>
vars     == <<funVars, confVars, ingVars, ctlVars, histVars, envVars, metVars, poolVars, service>>

-----------------------------------------------------------------------------
(* Bounds of the model *)

MaxFacets   == 2    \* facets of a post
MaxFeatures == 1    \* features of a facet
MaxRounds   == 5    \* gateway calls of one ingest
MaxThread   == 3    \* posts of a fetched thread view
MaxQueries  == 2    \* query vectors of one batch search
MaxBatch    == 3    \* parsed calls of one batch
MaxText     == 5    \* pieces of a model output given to the post-processing
MaxEvents   == 4    \* messages the jetstream delivers
MaxTools    == 3    \* tools registered with one LLMService
MaxOutputs  == 5    \* model outputs fed to the two repetition guards

(* Program constants *)

TOOL_CALL_TIMES == 3
CLI_TOOL_CALL_TIMES == 3
TOP_K == 2
DEFAULT_WORKER_COUNT == 3

-----------------------------------------------------------------------------
(* Strings *)

Seg(k, s, ty, nm, ar) == [seg |-> k, s |-> s, type |-> ty, name |-> nm, args |-> ar]
Txt(s)  == Seg("text", s, "", "", "")
Str(s)  == <<Txt(s)>>
\* one <|tool_call_begin|>type<|tool_sep|>name ```json args ```<|tool_call_end|> block
Directive(ty, nm, ar) == Seg("call", "", ty, nm, ar)

None    == <<>>
Some(x) == <<x>>
IsSome(o) == Len(o) > 0
Unwrap(o) == o[1]

Range(s) == {s[i] : i \in DOMAIN s}
SeqsUpTo(S, n) == UNION {[1..k -> S] : k \in 0..n}

-----------------------------------------------------------------------------
(* Identifiers and AT-URIs *)

AgentDid == "did:plc:aigis"
Alice    == "did:plc:alice"
Bob      == "did:plc:bob"
Collection == "app.bsky.feed.post"

\* format!("at://{}/{}/{}", did, collection, rkey)
AtUri(did, collection, rkey) == <<"at://", did, collection, rkey>>
\* str::contains
Contains(uri, needle) == \E i \in DOMAIN uri : uri[i] = needle

StrongRef(uri, cid) == [uri |-> uri, cid |-> cid]
ReplyRef(parent, root) == [parent |-> parent, root |-> root]

AgentPost == StrongRef(AtUri(AgentDid, Collection, "3kagent"), "cid-agent")
AlicePost == StrongRef(AtUri(Alice, Collection, "3kalice"), "cid-alice")
RootPost  == StrongRef(AtUri(Bob, Collection, "3kroot"), "cid-root")

-----------------------------------------------------------------------------
(* app.bsky.feed.post RecordData *)

Feature(u, k, did) == [union |-> u, kind |-> k, did |-> did]
Features == { Feature("Refs", "Mention", AgentDid), Feature("Refs", "Mention", Alice),
              Feature("Refs", "Link", ""), Feature("Unknown", "", "") }
Facet(fs) == [features |-> fs]

Embed(u, k, uri) == [union |-> u, kind |-> k, uri |-> uri]
Embeds == { Embed("Refs", "Record", AgentPost.uri), Embed("Refs", "Record", AlicePost.uri),
            Embed("Refs", "RecordWithMedia", AgentPost.uri),
            Embed("Refs", "RecordWithMedia", AlicePost.uri),
            Embed("Refs", "Images", <<>>), Embed("Unknown", "", <<>>) }

RecordData(text, reply, facets, embed) ==
    [text |-> text, reply |-> reply, facets |-> facets, embed |-> embed]

Replies == { None, Some(ReplyRef(AgentPost, RootPost)), Some(ReplyRef(AlicePost, RootPost)) }
FacetLists == { None } \cup
    { Some(fl) : fl \in SeqsUpTo({Facet(fs) : fs \in SeqsUpTo(Features, MaxFeatures)}, MaxFacets) }
Posts == { RecordData(Str("hello"), r, f, e) :
             r \in Replies, f \in FacetLists, e \in {None} \cup {Some(x) : x \in Embeds} }

-----------------------------------------------------------------------------
(* The relevance filter *)

\* the inner loop of is_me: for ftr in facet.data.features
RECURSIVE FeaturesMention(_, _)
FeaturesMention(features, i) ==
    IF i > Len(features) THEN FALSE
    ELSE IF features[i].union = "Refs"
         THEN IF features[i].kind = "Mention"
              THEN IF features[i].did = AgentDid THEN TRUE
                   ELSE FeaturesMention(features, i + 1)
              ELSE FeaturesMention(features, i + 1)
         ELSE FeaturesMention(features, i + 1)

\* the outer loop of is_me: for facet in facets
RECURSIVE FacetsMention(_, _)
FacetsMention(facets, j) ==
    IF j > Len(facets) THEN FALSE
    ELSE IF FeaturesMention(facets[j].features, 1) THEN TRUE
         ELSE FacetsMention(facets, j + 1)

EmbedQuotesMe(embed) ==
    IF embed.union = "Refs"
    THEN IF embed.kind = "Record" THEN Contains(embed.uri, AgentDid)
         ELSE IF embed.kind = "RecordWithMedia" THEN Contains(embed.uri, AgentDid)
         ELSE FALSE
    ELSE FALSE

QuoteOnlyRecord(post) ==
    IF IsSome(post.reply) /\ Contains(Unwrap(post.reply).parent.uri, AgentDid) THEN TRUE
    ELSE IF IsSome(post.facets) /\ FacetsMention(Unwrap(post.facets), 1) THEN TRUE
    ELSE IF IsSome(post.embed) /\ Unwrap(post.embed).union = "Refs"
            /\ Unwrap(post.embed).kind = "Record"
         THEN Contains(Unwrap(post.embed).uri, AgentDid)
    ELSE FALSE

is_me(post) ==
    IF IsSome(post.reply) /\ Contains(Unwrap(post.reply).parent.uri, AgentDid) THEN TRUE
    ELSE IF IsSome(post.facets) /\ FacetsMention(Unwrap(post.facets), 1) THEN TRUE
    ELSE IF IsSome(post.embed) /\ EmbedQuotesMe(Unwrap(post.embed)) THEN TRUE
    ELSE FALSE

AllowAnyone(list, did) == TRUE

is_allowlisted(list, did) ==
    IF IsSome(list) THEN \E i \in DOMAIN Unwrap(list) : Unwrap(list)[i] = did
    ELSE TRUE


-----------------------------------------------------------------------------
(* Thread views (app.bsky.feed.getPostThread) and their reconstruction *)

Times == {1, 2}

\* PostViewData: record.decodable says whether RecordData::try_from_unknown succeeds
PostView(uri, handle, display, did, t, dec, embed) ==
    [uri |-> uri, handle |-> handle, display_name |-> display, did |-> did,
     indexed_at |-> t, decodable |-> dec, text |-> Str("hello"), embed |-> embed]

ExternalEmbed == [kind |-> "External", uri |-> Str("https://example.org"),
                  title |-> Some(Str("a title")), description |-> Some(Str("a description"))]

PostViews ==
    { PostView(AlicePost.uri, "alice.test", Some("Alice"), Alice, t, d, None) :
        t \in Times, d \in BOOLEAN }
    \cup { PostView(RootPost.uri, "bob.test", None, Bob, 1, TRUE, Some(ExternalEmbed)) }

\* ThreadViewPostData.parent: Option<Union<ThreadViewPostParentRefs>>
ParentUnion(u, k, node) == [union |-> u, kind |-> k, node |-> node]
StopParents == { None, Some(ParentUnion("Refs", "NotFoundPost", None)),
                 Some(ParentUnion("Refs", "BlockedPost", None)),
                 Some(ParentUnion("Unknown", "", None)) }

RECURSIVE ThreadViewPosts(_)
ThreadViewPosts(depth) ==
    IF depth = 0 THEN {}
    ELSE { [post |-> p, parent |-> par] :
             p \in PostViews,
             par \in StopParents \cup
                 { Some(ParentUnion("Refs", "ThreadViewPost", Some(n))) :
                     n \in ThreadViewPosts(depth - 1) } }

\* the `thread` of a get_post_thread output
ThreadOutputs(depth) ==
    { ParentUnion("Refs", "ThreadViewPost", Some(n)) : n \in ThreadViewPosts(depth) }
    \cup { ParentUnion("Refs", "NotFoundPost", None), ParentUnion("Refs", "BlockedPost", None),
           ParentUnion("Unknown", "", None) }

Reverse(s) == [i \in 1..Len(s) |-> s[Len(s) + 1 - i]]

KeepOrder(s) == s

\* all_posts.reverse()
reverse(s) == Reverse(s)

RECURSIVE collect_parents_recursive(_, _)
collect_parents_recursive(current_thread_view, posts) ==
    LET pushed == Append(posts, current_thread_view.post) IN
    IF IsSome(current_thread_view.parent)
    THEN LET parent == Unwrap(current_thread_view.parent) IN
         IF parent.union = "Refs" /\ parent.kind = "ThreadViewPost"
         THEN collect_parents_recursive(Unwrap(parent.node), pushed)
         ELSE pushed
    ELSE pushed

\* the author string of extract_post_data / assemble_post_message
AuthorOf(post) ==
    IF IsSome(post.display_name)
    THEN <<Txt(Unwrap(post.display_name)), Txt(" ("), Txt(post.handle), Txt(")")>>
    ELSE Str(post.handle)

\* extract_post_data: Ok(PostData) as Some, Err as None
extract_post_data(post) ==
    IF post.decodable
    THEN Some([author |-> AuthorOf(post), text |-> post.text, uri |-> post.uri,
               author_did |-> post.did, indexed_at |-> Some(post.indexed_at),
               embed |-> post.embed])
    ELSE None

\* filter_map(|post| self.extract_post_data(post).ok())
RECURSIVE FilterMapPostData(_)
FilterMapPostData(posts) ==
    IF posts = <<>> THEN <<>>
    ELSE extract_post_data(Head(posts)) \o FilterMapPostData(Tail(posts))

\* atp_thread_to_json after a successful fetch: Err as None, Ok(v) as Some(v)
atp_thread_to_json(thread_output) ==
    IF thread_output.union = "Refs"
    THEN IF thread_output.kind = "ThreadViewPost"
         THEN Some(FilterMapPostData(
                  reverse(collect_parents_recursive(Unwrap(thread_output.node), <<>>))))
         ELSE None
    ELSE None

-----------------------------------------------------------------------------
(* Deduplication of the retrieved entries *)

\* Vec::dedup_by_key: drops an element whose key equals the key of the element kept before it
RECURSIVE DedupFrom(_, _, _)
DedupFrom(s, i, kept) ==
    IF i > Len(s) THEN kept
    ELSE IF kept # <<>> /\ s[i].id = kept[Len(kept)].id
         THEN DedupFrom(s, i + 1, kept)
         ELSE DedupFrom(s, i + 1, Append(kept, s[i]))

KeepAll(s) == s

dedup_by_key(s) == DedupFrom(s, 1, <<>>)

\* Vec::sort_by(|a, b| b.score.partial_cmp(&a.score)): stable, descending by score
RECURSIVE InsertByScore(_, _)
InsertByScore(sorted, x) ==
    IF sorted = <<>> THEN <<x>>
    ELSE IF Head(sorted).score >= x.score
         THEN <<Head(sorted)>> \o InsertByScore(Tail(sorted), x)
         ELSE <<x>> \o sorted

RECURSIVE SortFrom(_, _, _)
SortFrom(s, i, sorted) ==
    IF i > Len(s) THEN sorted ELSE SortFrom(s, i + 1, InsertByScore(sorted, s[i]))

sort_by_score(s) == SortFrom(s, 1, <<>>)

\* the legacy ingestor: sort by score descending, then dedup_by_key on the point id
legacy_dedup(similar_posts) == dedup_by_key(sort_by_score(similar_posts))

PointIds == {"a", "b", "c"}
Scores   == {1, 2}
ScoredPoints == { [id |-> i, score |-> sc, content |-> Str(i)] : i \in PointIds, sc \in Scores }


-----------------------------------------------------------------------------
(* Tool calls: logi::tools *)

\* serde_json::from_str on the args block: Some(value), or None when it is not JSON.
\* Two texts that differ in white space only give the same value.
from_str(args) ==
    CASE args = "{expr:2+2}"     -> Some("obj(expr=2+2)")
      [] args = "{ expr: 2+2 }"  -> Some("obj(expr=2+2)")
      [] args = "{expr:1/}"      -> Some("obj(expr=1/)")
      [] args = "{}"             -> Some("obj()")
      [] args = "{query:rust}"   -> Some("obj(query=rust)")
      [] OTHER                   -> None

ToolCall(ty, nm, ar) == [tool_type |-> ty, tool_name |-> nm, tool_args |-> ar]

\* for cap in re.captures_iter(response): a call is pushed when its args are JSON
RECURSIVE ParseFrom(_, _, _)
ParseFrom(response, i, calls) ==
    IF i > Len(response) THEN calls
    ELSE IF response[i].seg = "call"
         THEN IF IsSome(from_str(response[i].args))
              THEN ParseFrom(response, i + 1,
                       Append(calls, ToolCall(response[i].type, response[i].name,
                                              Unwrap(from_str(response[i].args)))))
              ELSE ParseFrom(response, i + 1, calls)
         ELSE ParseFrom(response, i + 1, calls)

parse_tool_calls(response) == ParseFrom(response, 1, <<>>)

\* the names of PostListener.tools: MathTool, DDGSearchTool, WebsiteTool
Tools == <<"calculator", "ddg_search", "website">>

\* Result<T, E>
Ok(v)  == [ok |-> TRUE, v |-> <<v>>, e |-> <<>>]
Err(e) == [ok |-> FALSE, v |-> <<>>, e |-> e]
Val(r) == r.v[1]

\* what tool.execute(args) may return, as Result<Value, anyhow::Error>
ExecOutcomes(name, args) ==
    CASE name = "calculator" ->
            IF args = "obj(expr=2+2)" THEN { Ok("obj(result=4)") }
            ELSE IF args = "obj(expr=1/)" THEN { Err(Str("Error evaluating expression")) }
            ELSE { Err(Str("Missing 'expr' parameter")) }
      [] name = "ddg_search" ->
            IF args = "obj(query=rust)"
            THEN { Ok("obj(results)"), Err(Str("Request error")) }
            ELSE { Err(Str("Missing or invalid 'query' parameter")) }
      [] OTHER ->
            { Err(Str("Missing 'website' parameter")) }

\* tools.iter().find(|t| t.name() == call.tool_name)
FindTool(tools, name) == \E i \in DOMAIN tools : tools[i] = name

\* the oracles of a batch: one outcome of execute per call (unused when the tool is not found)
Oracles(calls) ==
    { o \in [DOMAIN calls -> UNION { ExecOutcomes(calls[i].tool_name, calls[i].tool_args) :
                                        i \in DOMAIN calls }] :
        \A i \in DOMAIN calls : o[i] \in ExecOutcomes(calls[i].tool_name, calls[i].tool_args) }

ToolResult(name, res) == [name |-> name, res |-> res]

RECURSIVE ExecFrom(_, _, _, _, _)
ExecFrom(calls, tools, oracle, i, results) ==
    IF i > Len(calls) THEN results
    ELSE IF FindTool(tools, calls[i].tool_name)
         THEN IF oracle[i].ok
              THEN ExecFrom(calls, tools, oracle, i + 1,
                       Append(results, ToolResult(calls[i].tool_name, Ok(Val(oracle[i])))))
              ELSE ExecFrom(calls, tools, oracle, i + 1,
                       Append(results, ToolResult(calls[i].tool_name,
                                                  Err(Str("Error: ") \o oracle[i].e))))
         ELSE ExecFrom(calls, tools, oracle, i + 1,
                  Append(results, ToolResult(calls[i].tool_name, Err(Str("Tool not found")))))

\* a variant that gives up the batch at the first call that fails
RECURSIVE ExecUntilError(_, _, _, _, _)
ExecUntilError(calls, tools, oracle, i, results) ==
    IF i > Len(calls) THEN results
    ELSE IF FindTool(tools, calls[i].tool_name) /\ oracle[i].ok
         THEN ExecUntilError(calls, tools, oracle, i + 1,
                  Append(results, ToolResult(calls[i].tool_name, Ok(Val(oracle[i])))))
         ELSE Append(results, ToolResult(calls[i].tool_name, Err(Str("Error: failed"))))

StopAtFirstError(calls, tools, oracle) == ExecUntilError(calls, tools, oracle, 1, <<>>)

\* a variant that passes over a call whose tool is not registered, recording nothing for it
RECURSIVE ExecKnown(_, _, _, _, _)
ExecKnown(calls, tools, oracle, i, results) ==
    IF i > Len(calls) THEN results
    ELSE IF FindTool(tools, calls[i].tool_name)
         THEN ExecKnown(calls, tools, oracle, i + 1,
                  Append(results, ToolResult(calls[i].tool_name,
                      IF oracle[i].ok THEN Ok(Val(oracle[i]))
                      ELSE Err(Str("Error: ") \o oracle[i].e))))
         ELSE ExecKnown(calls, tools, oracle, i + 1, results)

SkipUnknown(calls, tools, oracle) == ExecKnown(calls, tools, oracle, 1, <<>>)

execute_tool_calls(calls, tools, oracle) == ExecFrom(calls, tools, oracle, 1, <<>>)

\* the calls of a batch whose tool was found, i.e. those tool.execute ran for
RECURSIVE ExecutedFrom(_, _, _, _)
ExecutedFrom(calls, tools, n, i) ==
    IF i > n THEN <<>>
    ELSE IF FindTool(tools, calls[i].tool_name)
         THEN <<calls[i]>> \o ExecutedFrom(calls, tools, n, i + 1)
         ELSE ExecutedFrom(calls, tools, n, i + 1)

Executed(calls, tools, results) == ExecutedFrom(calls, tools, Len(results), 1)


-----------------------------------------------------------------------------
(* Chat messages and context assembly *)

Msg(role, name, content) == [role |-> role, name |-> name, content |-> content]
User(content)      == Msg("user", "", content)
System(content)    == Msg("system", "", content)
Assistant(content) == Msg("assistant", "", content)
\* ToolResponse::new(call_id, content).into()
ToolResponseMsg(call_id, content) == Msg("tool", call_id, content)

\* the embed summary json_to_chatmessages appends to a message
EmbedSummary(embed) ==
    CASE embed.kind = "External" ->
            <<Txt("\n[External link: ")>> \o embed.uri \o <<Txt("]")>>
            \o (IF IsSome(embed.title)
                THEN <<Txt(" - \"")>> \o Unwrap(embed.title) \o <<Txt("\"")>>
                ELSE <<>>)
      [] embed.kind = "Video"  -> Str("\n[Video]")
      [] embed.kind = "Record" -> <<Txt("\n[Quoted post: ")>> \o embed.uri \o <<Txt("]")>>
      [] embed.kind = "RecordWithMedia" ->
            <<Txt("\n[Quoted post with media: ")>> \o embed.uri \o <<Txt("]")>>
      [] OTHER -> Str("\n[Images: ]")

\* one message of json_to_chatmessages: format!("{}: {}", post.author, post.text) + embed
PostMessage(post) ==
    User(post.author \o <<Txt(": ")>> \o post.text
         \o (IF IsSome(post.embed) THEN EmbedSummary(Unwrap(post.embed)) ELSE <<>>))

json_to_chatmessages(pd) == [i \in 1..Len(pd) |-> PostMessage(pd[i])]

\* the text embedded for the archival entry of a post (ingest, post_texts)
PostText(post) ==
    post.text \o
    (IF IsSome(post.embed) /\ Unwrap(post.embed).kind = "External"
     THEN (IF IsSome(Unwrap(post.embed).description)
           THEN <<Txt(" ")>> \o Unwrap(Unwrap(post.embed).description) ELSE <<>>)
          \o (IF IsSome(Unwrap(post.embed).title)
              THEN <<Txt(" ")>> \o Unwrap(Unwrap(post.embed).title) ELSE <<>>)
     ELSE <<>>)

\* Embedder::embed on success: one vector per text, in order
Vector(text) == [embedding_of |-> text]
embed(texts) == [i \in 1..Len(texts) |-> Vector(texts[i])]

\* texts: thread.iter().filter_map(|post| post.content.text_as_str())
Texts(th) == [i \in 1..Len(th) |-> th[i].content]

\* search_chats_str: format!("{}\n", entry.content) for each entry
RECURSIVE SearchChats(_)
SearchChats(entries) ==
    IF entries = <<>> THEN <<>>
    ELSE Head(entries).content \o <<Txt("\n")>> \o SearchChats(Tail(entries))

\* messages = thread.clone(); messages.insert(0, search_results_cm)
InitialMessages(similar_posts, th) == <<System(SearchChats(similar_posts))>> \o th

-----------------------------------------------------------------------------
(* The vector store: MemoryStore::get_similar *)

MemoryFields == {"id", "content", "embedding", "timestamp", "tags", "role",
                 "entry_type", "conversation_id"}
\* the payload keys MemoryStore::put writes
PutFields == {"content", "timestamp", "tags", "role", "entry_type", "conversation_id"}

Point(id, fields, content) == [id |-> id, fields |-> fields, content |-> content]

\* serde_json::from_value::<MemoryEntry>(payload): every field of MemoryEntry is required
EntryOfPayload(point) ==
    IF MemoryFields \subseteq point.fields
    THEN Some([id |-> point.id, content |-> point.content])
    ELSE None

\* the loop over search_result.result: Some(entries), or None at the first payload that fails
RECURSIVE EntriesFrom(_, _, _)
EntriesFrom(points, i, entries) ==
    IF i > Len(points) THEN Some(entries)
    ELSE IF IsSome(EntryOfPayload(points[i]))
         THEN EntriesFrom(points, i + 1, Append(entries, Unwrap(EntryOfPayload(points[i]))))
         ELSE None

get_similar(points) == EntriesFrom(points, 1, <<>>)

-----------------------------------------------------------------------------
(* Post-processing of the final text *)

IsSpace(seg) == seg.seg = "text" /\ seg.s \in {" ", "\n", ""}
ThinkEnd == Txt("</think>")

\* final_resp.split("</think>").last(): what follows the last delimiter
RECURSIVE AfterLastFrom(_, _)
AfterLastFrom(s, i) ==
    IF i = 0 THEN s
    ELSE IF s[i] = ThinkEnd THEN SubSeq(s, i + 1, Len(s))
         ELSE AfterLastFrom(s, i - 1)

AfterLastThink(s) == AfterLastFrom(s, Len(s))

RECURSIVE TrimStart(_)
TrimStart(s) == IF s # <<>> /\ IsSpace(Head(s)) THEN TrimStart(Tail(s)) ELSE s

RECURSIVE TrimEnd(_)
TrimEnd(s) ==
    IF s # <<>> /\ IsSpace(s[Len(s)]) THEN TrimEnd(SubSeq(s, 1, Len(s) - 1)) ELSE s

Trim(s) == TrimEnd(TrimStart(s))

\* a variant that keeps what follows the first delimiter
RECURSIVE AfterFirstFrom(_, _)
AfterFirstFrom(s, i) ==
    IF i > Len(s) THEN s
    ELSE IF s[i] = ThinkEnd THEN SubSeq(s, i + 1, Len(s))
         ELSE AfterFirstFrom(s, i + 1)

AfterFirstThink(final_resp) == Trim(AfterFirstFrom(final_resp, 1))

\* resp: the text that is posted
FinalText(final_resp) == Trim(AfterLastThink(final_resp))

\* a variant that answers to the parent of the triggering post when that post is a reply
reply_ref_kept(reply, rcid, msg_did, collection, rkey) ==
    IF IsSome(reply)
    THEN Unwrap(reply)
    ELSE ReplyRef(StrongRef(AtUri(msg_did, collection, rkey), rcid),
                  StrongRef(AtUri(msg_did, collection, rkey), rcid))

\* build_reply_ref(reply, rcid, msg_did, collection, rkey)
build_reply_ref(reply, rcid, msg_did, collection, rkey) ==
    IF IsSome(reply)
    THEN ReplyRef(StrongRef(AtUri(msg_did, collection, rkey), rcid), Unwrap(reply).root)
    ELSE ReplyRef(StrongRef(AtUri(msg_did, collection, rkey), rcid),
                  StrongRef(AtUri(msg_did, collection, rkey), rcid))

\* uuid::Uuid::new_v5(&NAMESPACE_DNS, bytes): a function of the bytes
UuidV5(bytes) == [uuid5_of |-> bytes]

\* SystemTime::now() in seconds
Clock == {1, 2}

\* a URI as text
UriText(uri) == [i \in DOMAIN uri |-> Txt(uri[i])]

\* serde_json::to_string(post_data)
PostDataJson(post) ==
    <<Txt("{author:")>> \o post.author \o <<Txt(",text:")>> \o post.text
    \o <<Txt(",uri:")>> \o UriText(post.uri)
    \o <<Txt(",author_did:"), Txt(post.author_did), Txt(",indexed_at:"),
         Txt(IF post.indexed_at = Some(1) THEN "1" ELSE "2"),
         Txt(IF IsSome(post.embed) THEN ",embed}" ELSE "}")>>

\* the tag create_memory_entry_from_post adds for the embed of a post
EmbedTag(e) ==
    CASE e.kind = "Images"          -> "has_images"
      [] e.kind = "External"        -> "has_external_link"
      [] e.kind = "Video"           -> "has_video"
      [] e.kind = "Record"          -> "has_quote"
      [] OTHER                          -> "has_quote_with_media"

create_memory_entry_from_post(post, embedding, now) ==
    [id |-> UuidV5(UriText(post.uri)),
     content |-> PostDataJson(post),
     tags |-> <<"bluesky_post">> \o
              (IF IsSome(post.embed) THEN <<EmbedTag(Unwrap(post.embed))>>
               ELSE <<>>),
     embedding |-> embedding,
     conversation_id |-> UuidV5(<<Txt(post.author_did)>>),
     timestamp |-> now, role |-> "user", entry_type |-> "bluesky_post"]

\* serde_json::to_string(&ChatLog {post, response, poster_did})
ChatLogJson(post, response, poster_did) ==
    <<Txt("{post:")>> \o post \o <<Txt(",response:")>> \o response
    \o <<Txt(",poster_did:"), Txt(poster_did), Txt("}")>>


-----------------------------------------------------------------------------
(* The repetition guard of the tool-call loop (ingest, loop body up to the execution) *)

Verdict(next, last, times, calls) ==
    [next |-> next, last |-> last, times |-> times, calls |-> calls]

\* aborts one round later: > where the code has >=
GuardStrict(resp, last, times) ==
    LET calls == parse_tool_calls(resp) IN
    IF calls # <<>>
    THEN LET pair == <<calls[1].tool_name, calls[1].tool_args>> IN
         IF IsSome(last) /\ Unwrap(last) = pair
         THEN IF times > TOOL_CALL_TIMES
              THEN Verdict("ABORTED", last, times, calls)
              ELSE Verdict("EXECUTE_TOOLS", Some(pair), times + 1, calls)
         ELSE Verdict("EXECUTE_TOOLS", Some(pair), 1, calls)
    ELSE Verdict("DONE", last, times, calls)

\* runs the tools of every output, with or without a directive
GuardNeverDone(resp, last, times) ==
    LET calls == parse_tool_calls(resp) IN
    LET pair == IF calls # <<>> THEN <<calls[1].tool_name, calls[1].tool_args>>
                ELSE <<"", "">> IN
    IF IsSome(last) /\ Unwrap(last) = pair
    THEN IF times >= TOOL_CALL_TIMES
         THEN Verdict("ABORTED", last, times, calls)
         ELSE Verdict("EXECUTE_TOOLS", Some(pair), times + 1, calls)
    ELSE Verdict("EXECUTE_TOOLS", Some(pair), 1, calls)

\* compares the whole batch of a round with the batch of the round before
GuardWholeBatch(resp, last, times) ==
    LET calls == parse_tool_calls(resp) IN
    IF calls # <<>>
    THEN LET batch == [i \in DOMAIN calls |-> <<calls[i].tool_name, calls[i].tool_args>>] IN
         IF IsSome(last) /\ Unwrap(last) = batch
         THEN IF times >= TOOL_CALL_TIMES
              THEN Verdict("ABORTED", last, times, calls)
              ELSE Verdict("EXECUTE_TOOLS", Some(batch), times + 1, calls)
         ELSE Verdict("EXECUTE_TOOLS", Some(batch), 1, calls)
    ELSE Verdict("DONE", last, times, calls)

\* counts the rounds of tool use: no reset for a new (name, arguments) pair
GuardCountsRounds(resp, last, times) ==
    LET calls == parse_tool_calls(resp) IN
    IF calls # <<>>
    THEN LET pair == <<calls[1].tool_name, calls[1].tool_args>> IN
         IF IsSome(last)
         THEN IF times >= TOOL_CALL_TIMES
              THEN Verdict("ABORTED", last, times, calls)
              ELSE Verdict("EXECUTE_TOOLS", Some(pair), times + 1, calls)
         ELSE Verdict("EXECUTE_TOOLS", Some(pair), 1, calls)
    ELSE Verdict("DONE", last, times, calls)

Guard(resp, last, times) ==
    LET calls == parse_tool_calls(resp) IN
    IF calls # <<>>
    THEN LET pair == <<calls[1].tool_name, calls[1].tool_args>> IN
         IF IsSome(last)
         THEN IF Unwrap(last) = pair
              THEN IF times >= TOOL_CALL_TIMES
                   THEN Verdict("ABORTED", last, times, calls)
                   ELSE Verdict("EXECUTE_TOOLS", Some(pair), times + 1, calls)
              ELSE Verdict("EXECUTE_TOOLS", Some(pair), 1, calls)
         ELSE Verdict("EXECUTE_TOOLS", Some(pair), 1, calls)
    ELSE Verdict("DONE", last, times, calls)

\* the messages one tool round appends: the assistant output, then one tool response per result
RECURSIVE ToolMessages(_)
ToolMessages(results) ==
    IF results = <<>> THEN <<>>
    ELSE <<ToolResponseMsg(Head(results).name,
               IF Head(results).res.ok THEN Str(Val(Head(results).res))
               ELSE Str("Error: ") \o Head(results).res.e)>>
         \o ToolMessages(Tail(results))

\* a variant that repeats the assistant message before every tool response
RECURSIVE RepeatAssistant(_, _)
RepeatAssistant(resp, results) ==
    IF results = <<>> THEN <<>>
    ELSE <<Assistant(resp)>> \o ToolMessages(<<Head(results)>>)
         \o RepeatAssistant(resp, Tail(results))

RoundMessages(resp, results) == <<Assistant(resp)>> \o ToolMessages(results)

-----------------------------------------------------------------------------
(* Events *)

Commit(record, cid, rkey) ==
    [record |-> record, cid |-> cid, rkey |-> rkey, collection |-> Collection]
\* the raw record: decodable says whether serde_json::from_value::<RecordData> succeeds
Raw(dec, data) == [decodable |-> dec, data |-> data]
Event(did, commit) == [did |-> did, commit |-> commit]

PlainPost      == RecordData(Str("hello"), None, None, None)
ReplyToMe      == RecordData(Str("hello"), Some(ReplyRef(AgentPost, RootPost)), None, None)
ReplyToAlice   == RecordData(Str("hello"), Some(ReplyRef(AlicePost, RootPost)), None, None)
MentionOfMe    == RecordData(Str("hello"), None,
                      Some(<<Facet(<<Feature("Refs", "Mention", AgentDid)>>)>>), None)
MentionOfAlice == RecordData(Str("hello"), None,
                      Some(<<Facet(<<Feature("Refs", "Mention", Alice)>>)>>), None)
QuoteOfAlice   == RecordData(Str("hello"), None, None,
                      Some(Embed("Refs", "Record", AlicePost.uri)))

PostEvent(did, post) == Event(did, Some(Commit(Some(Raw(TRUE, post)), Some("cid-post"), "3kpost")))

Events ==
    { Event(Alice, None),
      Event(Alice, Some(Commit(None, Some("cid-post"), "3kpost"))),
      Event(Alice, Some(Commit(Some(Raw(TRUE, MentionOfMe)), None, "3kpost"))),
      Event(Alice, Some(Commit(Some(Raw(FALSE, PlainPost)), Some("cid-post"), "3kpost"))),
      Event(Alice, Some(Commit(Some(Raw(TRUE, MentionOfMe)), Some("not-a-cid"), "3kpost"))) }
    \cup { PostEvent(Alice, p) :
             p \in {PlainPost, ReplyToMe, ReplyToAlice, MentionOfMe, MentionOfAlice, QuoteOfAlice} }
    \cup { PostEvent(Bob, p) : p \in {PlainPost, MentionOfMe} }

Allowlists == { None, Some(<<Alice>>) }

\* Cid::from_str(&cid)
CidOk(cid) == cid # "not-a-cid"

-----------------------------------------------------------------------------
(* What the collaborators may answer *)

OkThread(n) == Ok(ParentUnion("Refs", "ThreadViewPost", Some(n)))
AuthorPV(did, dec) == PostView(AtUri(did, Collection, "3kpost"), "author.test", Some("Author"),
                              did, 2, dec, None)
BobPV == PostView(RootPost.uri, "bob.test", None, Bob, 1, TRUE, Some(ExternalEmbed))

\* get_post_thread: an error, a root that is no thread view, or a thread view
FetchOutcomes(did) ==
    { Err(Str("fetch failed")),
      Ok(ParentUnion("Refs", "NotFoundPost", None)),
      OkThread([post |-> AuthorPV(did, TRUE), parent |-> None]),
      OkThread([post |-> AuthorPV(did, FALSE), parent |-> None]),
      OkThread([post |-> AuthorPV(did, TRUE),
                parent |-> Some(ParentUnion("Refs", "ThreadViewPost",
                                  Some([post |-> BobPV, parent |-> None])))]) }

FullPoint(id) == Point(id, MemoryFields, <<Txt("memory of "), Txt(id)>>)

\* search_points: an error or the scored points, at most TOP_K of them
SearchOutcomes ==
    { Err(Str("search failed")),
      Ok(<<>>),
      Ok(<<Point("m1", PutFields, Str("memory-m1"))>>),
      Ok(<<FullPoint("m1")>>),
      Ok(<<FullPoint("m1"), FullPoint("m1")>>),
      Ok(<<FullPoint("m1"), FullPoint("m2")>>) }

\* model outputs
CallA  == Directive("function", "calculator", "{expr:2+2}")
CallA2 == Directive("function", "calculator", "{ expr: 2+2 }")
CallB  == Directive("function", "calculator", "{}")
CallU  == Directive("function", "weather", "{}")
CallX  == Directive("function", "calculator", "{expr}")

PlainText == Str("hi there")
ThinkText == <<Txt("<think>"), Txt("hmm"), ThinkEnd, Txt(" "), Txt("actual reply")>>
EmptyText == <<Txt("<think>"), Txt("hmm"), ThinkEnd, Txt(" ")>>

\* the outputs of the gateway in the runs of a whole ingest
IngestRepertoire == { PlainText, ThinkText, EmptyText,
                      <<Txt("let me compute"), CallA>>, <<CallB>> }

\* the outputs of the gateway in the runs of the tool-call loop
LoopRepertoire == { PlainText, <<Txt("let me compute"), CallA>>, <<CallA2, CallB>>,
                    <<CallB>>, <<CallU, CallA>>, <<CallB, CallA>>, <<CallX>> }


-----------------------------------------------------------------------------
(* ingest: one action per stretch of code between two awaits *)

Idle == /\ fn = "" /\ input = <<>> /\ output = <<>>

\* a variant of the tail that counts every event as ingested, errors as well
FinishCountsIngested(res) ==
    /\ result' = res
    /\ pc' = "done"
    /\ ingest_latency' = ingest_latency + 1
    /\ posts_ingested' = posts_ingested + 1
    /\ IF res[1] = "Ok"
       THEN UNCHANGED ingest_errors
       ELSE ingest_errors' = ingest_errors + 1

\* the tail of ingest: the latency is recorded and one counter incremented
Finish(res) ==
    /\ result' = res
    /\ pc' = "done"
    /\ ingest_latency' = ingest_latency + 1
    /\ IF res[1] = "Ok"
       THEN posts_ingested' = posts_ingested + 1 /\ UNCHANGED ingest_errors
       ELSE ingest_errors' = ingest_errors + 1 /\ UNCHANGED posts_ingested

\* a panic unwinds out of ingest: nothing after it runs
Panic(why) ==
    /\ result' = <<"Panic", why>>
    /\ pc' = "panicked"
    /\ UNCHANGED metVars

aturi == AtUri(event.did, Unwrap(event.commit).collection, Unwrap(event.commit).rkey)

\* the gate answers "ignore" for every event
GateClosed(post, did) == FALSE

\* the gate lets a post through that is addressed to the agent or whose author is allowed
GateEither(post, did) == is_me(post) \/ is_allowlisted(allowlist, did)

\* if !self.is_me(riposte.clone()) || !self.is_allowlisted(&message.did) { return Ok(()) }
PassesGate(post, did) == ~(~is_me(post) \/ ~is_allowlisted(allowlist, did))

\* ingest up to the thread fetch: the commit pattern, the decoding, the relevance gate
IngestStart ==
    /\ pc = "start"
    /\ IF IsSome(event.commit) /\ IsSome(Unwrap(event.commit).record)
          /\ IsSome(Unwrap(event.commit).cid)
       THEN LET record == Unwrap(Unwrap(event.commit).record) IN
            IF ~record.decodable
            THEN Finish(<<"Err", "decode">>) /\ UNCHANGED <<riposte, fetchLog>>
            ELSE /\ riposte' = Some(record.data)
                 /\ IF PassesGate(record.data, event.did)
                    THEN /\ fetchLog' = Append(fetchLog, aturi)
                         /\ pc' = "fetch"
                         /\ UNCHANGED <<result, metVars>>
                    ELSE Finish(<<"Ok">>) /\ UNCHANGED fetchLog
       ELSE Finish(<<"Ok">>) /\ UNCHANGED <<riposte, fetchLog>>
    /\ UNCHANGED <<funVars, confVars, service, poolVars, event, thread, post_data, ctlVars, histVars,
                   embedLog, searchLog, created, vdb, memtries, memory_entries>>

EmbedCall(what, texts, ok) == [what |-> what, texts |-> texts, ok |-> ok]

\* a variant in which a failure of either embedding is returned
EmbedErrorOfEither(archivalOk, embedOk) == ~archivalOk \/ ~embedOk

\* `if let Ok(embeddings) = self.emb.embed(post_texts)` drops the error of the archival
\* embedding; `self.emb.embed(texts)?` returns the error of the embedding of the thread
EmbedErrorReturned(archivalOk, embedOk) == ~embedOk

\* the thread fetch returned: reconstruction, the archival entries, the embedding of the
\* thread and the similarity query
ThreadFetched ==
    /\ pc = "fetch"
    /\ \E fetched \in FetchOutcomes(event.did), archivalOk \in BOOLEAN, embedOk \in BOOLEAN,
          now \in Clock :
         IF ~fetched.ok \/ ~IsSome(atp_thread_to_json(Val(fetched)))
         THEN /\ Finish(<<"Err", "thread">>)
              /\ UNCHANGED <<thread, post_data, embedLog, searchLog, memory_entries>>
         ELSE LET pd == Unwrap(atp_thread_to_json(Val(fetched)))
                  th == json_to_chatmessages(pd)
                  archival == IF pd # <<>>
                              THEN <<EmbedCall("archival",
                                               [i \in 1..Len(pd) |-> PostText(pd[i])],
                                               archivalOk)>>
                              ELSE <<>>
              IN /\ post_data' = pd
                 /\ thread' = th
                 /\ embedLog' = embedLog \o archival
                                \o <<EmbedCall("thread", Texts(th), embedOk)>>
                 /\ (pd = <<>> => archivalOk)
                 /\ memory_entries' =
                       IF pd # <<>> /\ archivalOk
                       THEN [i \in 1..Len(pd) |->
                               create_memory_entry_from_post(pd[i],
                                   embed([j \in 1..Len(pd) |-> PostText(pd[j])])[i], now)]
                       ELSE <<>>
                 /\ ((pd = <<>> \/ ~archivalOk) => now = 1)
                 /\ IF EmbedErrorReturned(archivalOk, embedOk)
                    THEN Finish(<<"Err", "embed">>) /\ UNCHANGED searchLog
                    ELSE IF embed(Texts(th)) = <<>>
                    THEN Panic("vecs.last().unwrap()") /\ UNCHANGED searchLog
                    ELSE /\ searchLog' = Append(searchLog,
                                [vector |-> embed(Texts(th))[Len(th)],
                                 tags |-> Some(<<"stm">>), top_k |-> TOP_K])
                         /\ pc' = "search"
                         /\ UNCHANGED <<result, metVars>>
    /\ UNCHANGED <<funVars, confVars, service, poolVars, event, riposte, ctlVars, histVars,
                   fetchLog, created, vdb, memtries>>

\* a generate_response call: the conversation sent, and the answer once it is there
Request(msgs) == [req |-> msgs, resp |-> None]
Answered(log, answer) == [log EXCEPT ![Len(log)].resp = Some(answer)]

\* the similarity query returned: deduplication, the initial conversation, the first request
Searched ==
    /\ pc = "search"
    /\ \E found \in SearchOutcomes :
         IF ~found.ok \/ ~IsSome(get_similar(Val(found)))
         THEN Finish(<<"Err", "retrieval">>) /\ UNCHANGED <<messages, loopState, gwLog>>
         ELSE /\ messages' = InitialMessages(dedup_by_key(Unwrap(get_similar(Val(found)))), thread)
              /\ gwLog' = <<Request(messages')>>
              /\ loopState' = "AWAITING_MODEL"
              /\ pc' = "generate"
              /\ UNCHANGED <<result, metVars>>
    /\ UNCHANGED <<funVars, confVars, service, poolVars, event, riposte, thread, post_data,
                   response_accum, last_tool_call, last_tool_call_times, tool_calls,
                   roundLog, toolLog, envVars>>


\* the reply record handed to create_record
ReplyRecord(final_resp) ==
    [text  |-> FinalText(final_resp),
     langs |-> Some(<<"en">>),
     reply |-> Some(build_reply_ref(Unwrap(riposte).reply, Unwrap(event.commit).cid[1],
                                    event.did, Unwrap(event.commit).collection,
                                    Unwrap(event.commit).rkey))]

\* a variant without the check for an empty text
AfterLoopAlwaysPosts(final_resp) ==
    IF ~CidOk(Unwrap(event.commit).cid[1])
    THEN Finish(<<"Err", "cid">>)
    ELSE pc' = "post" /\ UNCHANGED <<result, metVars>>

\* after the loop: the reasoning is stripped, an empty text ends the turn, the cid is parsed
\* and the reply is sent
AfterLoop(final_resp) ==
    IF FinalText(final_resp) = <<>>
    THEN Finish(<<"Ok">>)
    ELSE IF ~CidOk(Unwrap(event.commit).cid[1])
    THEN Finish(<<"Err", "cid">>)
    ELSE pc' = "post" /\ UNCHANGED <<result, metVars>>

\* a variant with a degraded path: when the gateway fails, a stock text is used as the reply
GatewayDegraded(answer) ==
    LET said == IF answer.ok THEN Val(answer) ELSE Str("sorry, try again later")
        g == Guard(said, last_tool_call, last_tool_call_times)
    IN /\ response_accum' = said
       /\ last_tool_call' = g.last
       /\ last_tool_call_times' = g.times
       /\ tool_calls' = g.calls
       /\ loopState' = g.next
       /\ IF g.next = "EXECUTE_TOOLS"
          THEN pc' = "tools" /\ UNCHANGED <<result, metVars>>
          ELSE AfterLoop(said)

\* the control of the loop when the gateway answers: the answer is parsed and checked by the
\* repetition guard; the tools are run next, or the loop is left
\* a variant for which the abort on the repetition threshold is an error of ingest
GatewayAbortIsError(answer) ==
    IF ~answer.ok
    THEN /\ loopState' = "ERROR"
         /\ Finish(<<"Err", "gateway">>)
         /\ UNCHANGED <<response_accum, last_tool_call, last_tool_call_times, tool_calls>>
    ELSE LET g == Guard(Val(answer), last_tool_call, last_tool_call_times) IN
         /\ response_accum' = Val(answer)
         /\ last_tool_call' = g.last
         /\ last_tool_call_times' = g.times
         /\ tool_calls' = g.calls
         /\ loopState' = g.next
         /\ IF g.next = "EXECUTE_TOOLS"
            THEN pc' = "tools" /\ UNCHANGED <<result, metVars>>
            ELSE IF g.next = "ABORTED"
            THEN Finish(<<"Err", "too many repeated tool calls">>)
            ELSE AfterLoop(Val(answer))

GatewayControl(answer) ==
    IF ~answer.ok
    THEN /\ loopState' = "ERROR"
         /\ Finish(<<"Err", "gateway">>)
         /\ UNCHANGED <<response_accum, last_tool_call, last_tool_call_times, tool_calls>>
    ELSE LET g == Guard(Val(answer), last_tool_call, last_tool_call_times) IN
         /\ response_accum' = Val(answer)
         /\ last_tool_call' = g.last
         /\ last_tool_call_times' = g.times
         /\ tool_calls' = g.calls
         /\ loopState' = g.next
         /\ IF g.next = "EXECUTE_TOOLS"
            THEN pc' = "tools" /\ UNCHANGED <<result, metVars>>
            ELSE AfterLoop(Val(answer))

GatewayAnswers == { Ok(o) : o \in repertoire } \cup { Err(Str("gateway failed")) }

\* the initial generate_response returned
Generated ==
    /\ pc = "generate"
    /\ \E answer \in GatewayAnswers :
         /\ gwLog' = Answered(gwLog, answer)
         /\ GatewayControl(answer)
    /\ UNCHANGED <<funVars, confVars, service, poolVars, event, riposte, thread, post_data,
                   messages, roundLog, toolLog, envVars>>

\* execute_tool_calls returned: the round is appended to the conversation and the follow-up
\* is requested
ToolsExecuted ==
    /\ pc = "tools"
    /\ Len(gwLog) < MaxRounds
    /\ \E oracle \in Oracles(tool_calls) :
         LET tool_results == execute_tool_calls(tool_calls, Tools, oracle) IN
         /\ roundLog' = Append(roundLog, [calls |-> tool_calls, results |-> tool_results])
         /\ toolLog' = toolLog \o Executed(tool_calls, Tools, tool_results)
         /\ messages' = messages \o RoundMessages(response_accum, tool_results)
         /\ gwLog' = Append(gwLog, Request(messages'))
    /\ loopState' = "AWAITING_FOLLOWUP"
    /\ pc' = "followup"
    /\ UNCHANGED <<funVars, confVars, service, poolVars, event, result, riposte, thread, post_data,
                   response_accum, last_tool_call, last_tool_call_times, tool_calls,
                   envVars, metVars>>

\* the follow-up generate_response returned
FollowedUp ==
    /\ pc = "followup"
    /\ \E answer \in GatewayAnswers :
         /\ gwLog' = Answered(gwLog, answer)
         /\ GatewayControl(answer)
    /\ UNCHANGED <<funVars, confVars, service, poolVars, event, riposte, thread, post_data,
                   messages, roundLog, toolLog, envVars>>

\* MemoryStore::put: the payload and the point of an entry
Payload(entry) ==
    [content |-> entry.content, timestamp |-> entry.timestamp, tags |-> entry.tags,
     role |-> entry.role, entry_type |-> entry.entry_type,
     conversation_id |-> entry.conversation_id]

PointStruct(entry) == [id |-> entry.id, vector |-> entry.embedding, payload |-> Payload(entry)]

\* the store after upserting one point: the point with the same id is replaced, a point
\* with a new id is added
UpsertPoint(store, point) ==
    IF \E i \in DOMAIN store : store[i].id = point.id
    THEN [i \in DOMAIN store |-> IF store[i].id = point.id THEN point ELSE store[i]]
    ELSE Append(store, point)

RECURSIVE upsert_points(_, _)
upsert_points(store, points) ==
    IF points = <<>> THEN store
    ELSE upsert_points(UpsertPoint(store, Head(points)), Tail(points))

put(store, entry) == upsert_points(store, <<PointStruct(entry)>>)

put_batch(store, entries) ==
    upsert_points(store, [i \in DOMAIN entries |-> PointStruct(entries[i])])

\* a variant whose identifier also depends on the time of the write
ExchangeEntryStamped(chat_log, root_uri, now) ==
    [id |-> UuidV5(chat_log \o <<Txt(IF now = 1 THEN "1" ELSE "later")>>),
     content |-> chat_log, tags |-> <<"stm">>,
     embedding |-> Vector(chat_log), conversation_id |-> UuidV5(UriText(root_uri)),
     timestamp |-> now, role |-> "user", entry_type |-> "bluesky_post"]

\* the exchange entry ingest builds after the reply
ExchangeEntry(chat_log, root_uri, now) ==
    [id |-> UuidV5(chat_log), content |-> chat_log, tags |-> <<"stm">>,
     embedding |-> Vector(chat_log), conversation_id |-> UuidV5(UriText(root_uri)),
     timestamp |-> now, role |-> "user", entry_type |-> "bluesky_post"]

\* create_record returned: the exchange is serialized, embedded and put in memtries
RecordCreated ==
    /\ pc = "post"
    /\ \E createdOk \in BOOLEAN, embedOk \in BOOLEAN, now \in Clock :
         IF ~createdOk
         THEN /\ embedOk /\ now = 1
              /\ Finish(<<"Err", "create_record">>)
              /\ UNCHANGED <<created, embedLog, memtries>>
         ELSE /\ created' = Append(created, ReplyRecord(response_accum))
              /\ IF thread = <<>>
                 THEN Panic("thread has stuff in it") /\ UNCHANGED <<embedLog, memtries>>
                 ELSE LET chat_log == ChatLogJson(thread[Len(thread)].content,
                                                  FinalText(response_accum), event.did)
                          root_uri == Unwrap(ReplyRecord(response_accum).reply).root.uri
                      IN /\ embedLog' = Append(embedLog,
                                               EmbedCall("exchange", <<chat_log>>, embedOk))
                         /\ IF embedOk
                            THEN /\ memtries' = <<ExchangeEntry(chat_log, root_uri, now)>>
                                 /\ Finish(<<"Ok">>)
                            ELSE /\ now = 1
                                 /\ Finish(<<"Err", "embed">>)
                                 /\ UNCHANGED memtries
    /\ UNCHANGED <<funVars, confVars, service, poolVars, event, riposte, thread, post_data, ctlVars, histVars,
                   fetchLog, searchLog, vdb, memory_entries>>

-----------------------------------------------------------------------------
(* The specification of one ingest call *)

\* the messages of the jetstream, by their order of arrival
Messages == 1..MaxEvents

\* no LLMService has been built
NoService == service = [system_prompt |-> None, tools |-> <<>>]

\* the pool of main before any message: every permit in the semaphore, no handler spawned
NoPool ==
    /\ msg_rx = <<>> /\ message = None
    /\ semaphore = worker_count /\ permit = {}
    /\ handlers = [m \in Messages |-> "none"]

NoIngest ==
    /\ result = None /\ riposte = None /\ thread = <<>> /\ post_data = <<>>
    /\ messages = <<>> /\ response_accum = <<>> /\ last_tool_call = None
    /\ last_tool_call_times = 0 /\ tool_calls = <<>> /\ loopState = "INIT"
    /\ gwLog = <<>> /\ roundLog = <<>> /\ toolLog = <<>>
    /\ fetchLog = <<>> /\ embedLog = <<>> /\ searchLog = <<>>
    /\ created = <<>> /\ vdb = <<>> /\ memtries = <<>> /\ memory_entries = <<>>
    /\ posts_ingested = 0 /\ ingest_errors = 0 /\ ingest_latency = 0

Init ==
    /\ Idle
    /\ worker_count = DEFAULT_WORKER_COUNT /\ NoPool /\ NoService
    /\ allowlist \in Allowlists
    /\ repertoire = IngestRepertoire
    /\ event \in Events
    /\ pc = "start"
    /\ NoIngest

Next ==
    \/ IngestStart
    \/ ThreadFetched
    \/ Searched
    \/ Generated
    \/ ToolsExecuted
    \/ FollowedUp
    \/ RecordCreated

Spec == Init /\ [][Next]_vars

-----------------------------------------------------------------------------
(* The tool-call loop of one ingest, from the first request on *)

LoopPost     == MentionOfMe
LoopEvent    == PostEvent(Alice, LoopPost)
LoopPostData == Unwrap(atp_thread_to_json(
                    Val(OkThread([post |-> AuthorPV(Alice, TRUE), parent |-> None]))))
LoopThread   == json_to_chatmessages(LoopPostData)

\* the state of ingest when the first request is out: a mention by Alice, a thread of one
\* post, one entry retrieved
InitLoop ==
    /\ Idle
    /\ worker_count = DEFAULT_WORKER_COUNT /\ NoPool /\ NoService
    /\ allowlist = None
    /\ repertoire = LoopRepertoire
    /\ event = LoopEvent
    /\ pc = "generate"
    /\ result = None
    /\ riposte = Some(LoopPost)
    /\ post_data = LoopPostData
    /\ thread = LoopThread
    /\ messages = InitialMessages(
                      dedup_by_key(Unwrap(get_similar(<<FullPoint("m1")>>))), LoopThread)
    /\ gwLog = <<Request(messages)>>
    /\ response_accum = <<>> /\ last_tool_call = None /\ last_tool_call_times = 0
    /\ tool_calls = <<>> /\ loopState = "AWAITING_MODEL"
    /\ roundLog = <<>> /\ toolLog = <<>>
    /\ fetchLog = <<AtUri(Alice, Collection, "3kpost")>>
    /\ embedLog = <<EmbedCall("archival",
                              [i \in 1..Len(LoopPostData) |-> PostText(LoopPostData[i])], TRUE),
                    EmbedCall("thread", Texts(LoopThread), TRUE)>>
    /\ searchLog = <<[vector |-> embed(Texts(LoopThread))[Len(LoopThread)],
                      tags |-> Some(<<"stm">>), top_k |-> TOP_K]>>
    /\ created = <<>> /\ vdb = <<>> /\ memtries = <<>>
    /\ memory_entries = <<create_memory_entry_from_post(LoopPostData[1],
                              Vector(PostText(LoopPostData[1])), 1)>>
    /\ posts_ingested = 0 /\ ingest_errors = 0 /\ ingest_latency = 0

NextLoop ==
    \/ Generated
    \/ ToolsExecuted
    \/ FollowedUp
    \/ RecordCreated

SpecLoop == InitLoop /\ [][NextLoop]_vars

-----------------------------------------------------------------------------
(* The control of the loop.  The guard reads the answer, last_tool_call and
   last_tool_call_times only, so the conversation and the logs are left where they were
   when the loop was entered; the rounds are not counted and the gateway always answers
   in the end. *)

LiveAnswered ==
    /\ pc \in {"generate", "followup"}
    /\ \E answer \in GatewayAnswers : GatewayControl(answer)
    /\ UNCHANGED <<funVars, confVars, service, poolVars, event, riposte, thread, post_data, histVars, envVars>>

LiveToolsExecuted ==
    /\ pc = "tools"
    /\ loopState' = "AWAITING_FOLLOWUP"
    /\ pc' = "followup"
    /\ UNCHANGED <<funVars, confVars, service, poolVars, event, result, riposte, thread, post_data,
                   response_accum, last_tool_call, last_tool_call_times, tool_calls,
                   histVars, envVars, metVars>>

NextLive ==
    \/ LiveAnswered
    \/ LiveToolsExecuted
    \/ RecordCreated

SpecLive == InitLoop /\ [][NextLive]_vars /\ WF_vars(NextLive)

-----------------------------------------------------------------------------
(* The functions of the program, applied to the inputs they can get *)

\* one query of search_batch_points: at most TOP_K points, best first, no point twice
QueryResults ==
    { q \in SeqsUpTo(ScoredPoints, TOP_K) :
        /\ \A i, j \in DOMAIN q : i < j => (q[i].score >= q[j].score /\ q[i].id # q[j].id) }

\* res.result.into_iter().flat_map(|r| r.result).collect()
RECURSIVE batch_search_similar(_)
batch_search_similar(res) ==
    IF res = <<>> THEN <<>> ELSE Head(res) \o batch_search_similar(Tail(res))

\* what get_similar of the bot returns: at most TOP_K entries
Retrieved ==
    { Unwrap(get_similar(points)) :
        points \in SeqsUpTo({ FullPoint(id) : id \in PointIds }, TOP_K) }

\* the parsed calls of a batch
ParsedCalls ==
    { ToolCall("function", "calculator", "obj(expr=2+2)"),
      ToolCall("function", "calculator", "obj()"),
      ToolCall("function", "ddg_search", "obj(query=rust)"),
      ToolCall("function", "weather", "obj()") }

\* the pieces of a model output: the delimiter, white space, other text
TextPieces == { Txt("<think>"), Txt("hmm"), ThinkEnd, Txt(" "), Txt("actual reply") }

\* the exchanges ingest can build an entry for, and the time it does
Exchanges ==
    { [post |-> p, response |-> r, poster_did |-> d, root_uri |-> u, now |-> t] :
        p \in {Str("hello"), Str("bye")}, r \in {Str("hi there"), Str("ok")},
        d \in {Alice, Bob}, u \in {RootPost.uri, AlicePost.uri}, t \in Clock }

\* the source posts ingest can build an entry for, and the time it does
SourcePosts ==
    { [post |-> Unwrap(extract_post_data(v)), now |-> t] :
        v \in { w \in PostViews : w.decodable }, t \in Clock }

\* str::starts_with and str::strip_prefix, on a name as its pieces
starts_with(s, prefix) == Len(s) >= Len(prefix) /\ SubSeq(s, 1, Len(prefix)) = prefix
strip_prefix(s, prefix) == SubSeq(s, Len(prefix) + 1, Len(s))

AkashPrefix  == <<"akash", "/">>
GeminiPrefix == <<"gemini", "/">>
AkashEndpoint == "https://chatapi.akash.network/api/v1/"

\* env::var(name): the value, or the VarError
EnvVar(env, name) == IF IsSome(env[name]) THEN Ok(Unwrap(env[name])) ELSE Err(<<"NotPresent">>)

\* a variant that keeps the full model name
resolve_keeping_name(service_target, env) ==
    LET model_name_full == service_target.model.model_name
    IN IF starts_with(model_name_full, AkashPrefix)
       THEN IF ~EnvVar(env, "AKASH_API_KEY").ok
            THEN Err(<<"Auth", "AKASH_API_KEY not found: ">> \o EnvVar(env, "AKASH_API_KEY").e)
            ELSE Ok([endpoint |-> Some(AkashEndpoint),
                     auth |-> Some(<<"Bearer", Val(EnvVar(env, "AKASH_API_KEY"))>>),
                     model |-> [adapter_kind |-> "OpenAI", model_name |-> model_name_full]])
       ELSE Ok(service_target)

\* a variant that passes the target through when the key is missing
resolve_without_key(service_target, env) ==
    LET model_name_full == service_target.model.model_name
    IN IF starts_with(model_name_full, AkashPrefix) /\ EnvVar(env, "AKASH_API_KEY").ok
       THEN Ok([endpoint |-> Some(AkashEndpoint),
                auth |-> Some(<<"Bearer", Val(EnvVar(env, "AKASH_API_KEY"))>>),
                model |-> [adapter_kind |-> "OpenAI",
                           model_name |-> strip_prefix(model_name_full, AkashPrefix)]])
       ELSE Ok(service_target)

\* the resolver function of create_custom_resolver, applied to a service target under an
\* environment
create_custom_resolver(service_target, env) ==
    LET model_name_full == service_target.model.model_name
    IN IF starts_with(model_name_full, AkashPrefix)
       THEN IF ~EnvVar(env, "AKASH_API_KEY").ok
            THEN Err(<<"Auth", "AKASH_API_KEY not found: ">> \o EnvVar(env, "AKASH_API_KEY").e)
            ELSE Ok([endpoint |-> Some(AkashEndpoint),
                     auth |-> Some(<<"Bearer", Val(EnvVar(env, "AKASH_API_KEY"))>>),
                     model |-> [adapter_kind |-> "OpenAI",
                                model_name |-> strip_prefix(model_name_full, AkashPrefix)]])
       ELSE IF starts_with(model_name_full, GeminiPrefix)
       THEN IF ~EnvVar(env, "GEMINI_API_KEY").ok
            THEN Err(<<"Auth", "GEMINI_API_KEY not found: ">> \o EnvVar(env, "GEMINI_API_KEY").e)
            ELSE Ok([endpoint |-> service_target.endpoint,
                     auth |-> Some(<<"ApiKey", Val(EnvVar(env, "GEMINI_API_KEY"))>>),
                     model |-> [adapter_kind |-> "GoogleAi",
                                model_name |-> strip_prefix(model_name_full, GeminiPrefix)]])
       ELSE Ok(service_target)

\* ServiceTarget::new(name) for the model names of up to three pieces, under the four
\* environments
ResolverInputs ==
    { [service_target |-> [endpoint |-> None, auth |-> None,
                           model |-> [adapter_kind |-> "Default", model_name |-> n]],
       env |-> [AKASH_API_KEY |-> a, GEMINI_API_KEY |-> g]] :
        n \in SeqsUpTo({"akash", "gemini", "/", "gpt-3.5-turbo"}, 3) \ {<<>>},
        a \in {None, Some("test_akash_key")}, g \in {None, Some("test_gemini_key")} }

\* get_post_thread(..).await: an error or an output with its `thread`
ThreadFetches == { Err(Str("fetch failed")) } \cup { Ok(t) : t \in ThreadOutputs(MaxThread) }

\* the error of a fetched root that is no thread view
UnexpectedShape(thread_output) ==
    IF thread_output.union = "Refs"
    THEN Str("Unexpected thread type")
    ELSE Str("Unexpected ref type")

\* a reconstruction that answers a failed fetch or an unexpected root with an empty thread
thread_or_empty(fetched) ==
    IF fetched.ok /\ IsSome(atp_thread_to_json(Val(fetched)))
    THEN Ok(Unwrap(atp_thread_to_json(Val(fetched))))
    ELSE Ok(<<>>)

\* atp_thread_to_json with its fetch: get_post_thread(..).await? and the match on the root
thread_to_json(fetched) ==
    IF ~fetched.ok
    THEN Err(fetched.e)
    ELSE IF IsSome(atp_thread_to_json(Val(fetched)))
         THEN Ok(Unwrap(atp_thread_to_json(Val(fetched))))
         ELSE Err(UnexpectedShape(Val(fetched)))

\* assemble_post_message: "{author}: {text}", an error when the record does not decode
assemble_post_message(post) ==
    IF post.decodable
    THEN Some(User(AuthorOf(post) \o <<Txt(": ")>> \o post.text))
    ELSE None

\* filter_map(|post| self.assemble_post_message(post).ok()).map(ChatMessage::user)
RECURSIVE FilterMapMessages(_)
FilterMapMessages(posts) ==
    IF posts = <<>> THEN <<>>
    ELSE assemble_post_message(Head(posts)) \o FilterMapMessages(Tail(posts))

\* the legacy ingestor's reconstruction, with its fetch
atp_thread_to_chatmessages(fetched) ==
    IF ~fetched.ok
    THEN Err(fetched.e)
    ELSE IF Val(fetched).union = "Refs"
         THEN IF Val(fetched).kind = "ThreadViewPost"
              THEN Ok(FilterMapMessages(
                      reverse(collect_parents_recursive(Unwrap(Val(fetched).node), <<>>))))
              ELSE Err(Str("Unexpected thread type"))
         ELSE Err(Str("Unexpected ref type"))

\* the context ingest builds from what get_similar returned and the thread
ContextInputs ==
    { [similar_posts |-> sp, thread |-> th] :
        sp \in Retrieved,
        th \in SeqsUpTo({User(Str("alice.test: hello")), User(Str("bob.test: bye"))}, 2) }

\* similar_posts.dedup_by_key(..); search_results_cm; messages.insert(0, search_results_cm)
initial_messages(similar_posts, th) == InitialMessages(dedup_by_key(similar_posts), th)

\* the repetition guard of run_cli: as the one of ingest, but a first call (no last call
\* yet) leaves last_tool_call_times where it is
CliGuard(resp, last, times) ==
    LET calls == parse_tool_calls(resp) IN
    IF calls # <<>>
    THEN LET pair == <<calls[1].tool_name, calls[1].tool_args>> IN
         IF IsSome(last)
         THEN IF Unwrap(last) = pair
              THEN IF times >= CLI_TOOL_CALL_TIMES
                   THEN Verdict("ABORTED", last, times, calls)
                   ELSE Verdict("EXECUTE_TOOLS", Some(pair), times + 1, calls)
              ELSE Verdict("EXECUTE_TOOLS", Some(pair), 1, calls)
         ELSE Verdict("EXECUTE_TOOLS", Some(pair), times, calls)
    ELSE Verdict("DONE", last, times, calls)

\* a loop fed the outputs one after the other: how it ends (ABORTED, DONE, or MORE when
\* the outputs are used up), at which output, and after how many tool executions
RECURSIVE RunLoop(_, _, _, _, _)
RunLoop(which, outputs, i, last, times) ==
    IF i > Len(outputs)
    THEN [ends |-> "MORE", round |-> i, executed |-> i - 1]
    ELSE LET g == IF which = "cli" THEN CliGuard(outputs[i], last, times)
                  ELSE Guard(outputs[i], last, times)
         IN IF g.next = "EXECUTE_TOOLS"
            THEN RunLoop(which, outputs, i + 1, g.last, g.times)
            ELSE [ends |-> g.next, round |-> i, executed |-> i - 1]

\* let mut last_tool_call = None; let mut last_tool_call_times = 0; loop { .. }
run_guards(outputs) ==
    [bot |-> RunLoop("bot", outputs, 1, None, 0), cli |-> RunLoop("cli", outputs, 1, None, 0)]

GuardOutputs == SeqsUpTo({ <<CallA>>, <<CallB, CallA>>, PlainText }, MaxOutputs)

\* a directive as the model writes it: its type, name and argument text, and its layout.
\* "fence_end": the closing fence is followed at once by the end marker, the format of the
\* doc comment of parse_tool_calls; "fence_newline_end": a newline stands between the two,
\* the format the system prompt gives; "args_on_lines": the argument object spans lines
Layouts == {"fence_end", "fence_newline_end", "args_on_lines"}
RawDirective(ty, nm, ar, layout) ==
    [raw |-> "directive", type |-> ty, name |-> nm, args |-> ar, layout |-> layout]
RawText(s) == [raw |-> "text", type |-> "", name |-> "", args |-> s, layout |-> ""]

\* the regex of parse_tool_calls on one piece: ...(?P<args>\{.*?\})\s*```<|tool_call_end|>
\* matches when the argument object is on one line (`.` matches no newline) and nothing
\* stands between the closing fence and the end marker
Captures(piece) ==
    IF piece.raw = "directive"
    THEN IF piece.layout = "fence_end"
         THEN <<Directive(piece.type, piece.name, piece.args)>>
         ELSE <<Txt(piece.args)>>
    ELSE <<Txt(piece.args)>>

\* re.captures_iter(response): the matches of the regex, in the order of the text
RECURSIVE captures_iter(_)
captures_iter(response) ==
    IF response = <<>> THEN <<>>
    ELSE Captures(Head(response)) \o captures_iter(Tail(response))

RawPieces ==
    { RawText("hi there") } \cup
    { RawDirective("function", "calculator", ar, layout) :
        ar \in {"{expr:2+2}", "{}", "{expr}"}, layout \in Layouts }

InitFun ==
    /\ worker_count = DEFAULT_WORKER_COUNT /\ NoPool /\ NoService
    /\ \/ fn = "is_me" /\ input \in Posts
       \/ fn = "atp_thread_to_json" /\ input \in ThreadOutputs(MaxThread)
       \/ fn = "dedup_by_key" /\ input \in Retrieved
       \/ fn = "legacy_dedup" /\ input \in SeqsUpTo(QueryResults, MaxQueries)
       \/ fn = "execute_tool_calls" /\ input \in SeqsUpTo(ParsedCalls, MaxBatch)
       \/ fn = "final_text" /\ input \in SeqsUpTo(TextPieces, MaxText)
       \/ fn = "exchange_entries" /\ input \in Exchanges \X Exchanges
       \/ fn = "source_entries" /\ input \in SourcePosts \X SourcePosts
       \/ fn = "create_custom_resolver" /\ input \in ResolverInputs
       \/ fn = "legacy_queries" /\ input \in SeqsUpTo({Str("hello"), Str("bye")}, MaxThread)
       \/ fn = "thread_to_json" /\ input \in ThreadFetches
       \/ fn = "initial_messages" /\ input \in ContextInputs
       \/ fn = "run_guards" /\ input \in GuardOutputs
       \/ fn = "parse_tool_calls" /\ input \in SeqsUpTo(RawPieces, MaxBatch)
       \/ fn = "atp_thread_to_chatmessages" /\ input \in ThreadFetches
    /\ output = <<>>
    /\ allowlist = None
    /\ repertoire = {}
    /\ event = Event(Alice, None)
    /\ pc = "fun"
    /\ NoIngest

Returns(value) ==
    /\ output = <<>>
    /\ output' = <<value>>
    /\ UNCHANGED <<fn, input, confVars, service, poolVars, ctlVars, histVars, envVars, metVars, ingVars>>

ApplyIsMe == fn = "is_me" /\ Returns(is_me(input))

ApplyReconstruct == fn = "atp_thread_to_json" /\ Returns(atp_thread_to_json(input))

ApplyDedup == fn = "dedup_by_key" /\ Returns(dedup_by_key(input))

ApplyLegacyDedup ==
    fn = "legacy_dedup" /\ Returns(legacy_dedup(batch_search_similar(input)))

ApplyExecute ==
    /\ fn = "execute_tool_calls"
    /\ \E oracle \in Oracles(input) :
         Returns([oracle |-> oracle, results |-> execute_tool_calls(input, Tools, oracle)])

ApplyFinalText == fn = "final_text" /\ Returns(FinalText(input))

\* two exchanges are made into entries and put, one after the other
ApplyExchangeEntries ==
    /\ fn = "exchange_entries"
    /\ LET entry(x) == ExchangeEntry(ChatLogJson(x.post, x.response, x.poster_did),
                                     x.root_uri, x.now)
       IN Returns([a |-> entry(input[1]), b |-> entry(input[2]),
                   store |-> put(put(<<>>, entry(input[1])), entry(input[2]))])

\* two source posts are made into entries and put, one after the other
ApplySourceEntries ==
    /\ fn = "source_entries"
    /\ LET entry(x) == create_memory_entry_from_post(x.post, Vector(PostText(x.post)), x.now)
       IN Returns([a |-> entry(input[1]), b |-> entry(input[2]),
                   store |-> put(put(<<>>, entry(input[1])), entry(input[2]))])

ApplyResolver ==
    fn = "create_custom_resolver"
    /\ Returns(create_custom_resolver(input.service_target, input.env))

\* the legacy ingestor: embed(texts), then batch_search_similar(vecs, 2), one search per
\* vector, each SearchPointsBuilder::new(collection, vec, top) without a filter
legacy_queries(texts) ==
    [i \in DOMAIN embed(texts) |-> [vector |-> embed(texts)[i], tags |-> None, top_k |-> TOP_K]]

ApplyLegacyQueries == fn = "legacy_queries" /\ Returns(legacy_queries(input))

ApplyThreadToJson == fn = "thread_to_json" /\ Returns(thread_to_json(input))

ApplyThreadToChatMessages ==
    fn = "atp_thread_to_chatmessages" /\ Returns(atp_thread_to_chatmessages(input))

ApplyInitialMessages ==
    fn = "initial_messages" /\ Returns(initial_messages(input.similar_posts, input.thread))

ApplyRunGuards == fn = "run_guards" /\ Returns(run_guards(input))

ApplyParse == fn = "parse_tool_calls" /\ Returns(parse_tool_calls(captures_iter(input)))

NextFun ==
    \/ ApplyIsMe
    \/ ApplyReconstruct
    \/ ApplyDedup
    \/ ApplyLegacyDedup
    \/ ApplyExecute
    \/ ApplyFinalText
    \/ ApplyExchangeEntries
    \/ ApplySourceEntries
    \/ ApplyLegacyQueries
    \/ ApplyResolver
    \/ ApplyThreadToJson
    \/ ApplyThreadToChatMessages
    \/ ApplyInitialMessages
    \/ ApplyRunGuards
    \/ ApplyParse

SpecFun == InitFun /\ [][NextFun]_vars

-----------------------------------------------------------------------------
(* The vector store under the writes of MemoryStore *)

MaxPutBatch == 2     \* entries in one put_batch call

\* the entries a caller hands to MemoryStore: the exchange entries ingest builds for the
\* exchanges of one author in one thread, at the times of the clock
StoreEntries ==
    { ExchangeEntry(ChatLogJson(x.post, x.response, x.poster_did), x.root_uri, x.now) :
        x \in { y \in Exchanges : y.poster_did = Alice /\ y.root_uri = RootPost.uri } }

InitStore ==
    /\ Idle
    /\ worker_count = DEFAULT_WORKER_COUNT /\ NoPool /\ NoService
    /\ allowlist = None
    /\ repertoire = {}
    /\ event = LoopEvent
    /\ pc = "store"
    /\ NoIngest

\* MemoryStore::put(entry)
Put ==
    /\ pc = "store"
    /\ \E entry \in StoreEntries : vdb' = put(vdb, entry)
    /\ UNCHANGED <<funVars, confVars, service, poolVars, ingVars, ctlVars, histVars, metVars,
                   fetchLog, embedLog, searchLog, created, memtries, memory_entries>>

\* MemoryStore::put_batch(entries)
PutBatch ==
    /\ pc = "store"
    /\ \E entries \in SeqsUpTo(StoreEntries, MaxPutBatch) : vdb' = put_batch(vdb, entries)
    /\ UNCHANGED <<funVars, confVars, service, poolVars, ingVars, ctlVars, histVars, metVars,
                   fetchLog, embedLog, searchLog, created, memtries, memory_entries>>

\* serde_json::from_value::<MemoryEntry>(payload): every field of MemoryEntry is required,
\* a payload without one of them is an error
from_value(payload) ==
    IF MemoryFields \subseteq DOMAIN payload
    THEN Ok([f \in MemoryFields |-> payload[f]])
    ELSE Err(Str("missing field"))

\* for point in search_result.result { entries.push(from_value(point.payload)?) }
RECURSIVE EntriesOfPoints(_, _, _)
EntriesOfPoints(points, i, entries) ==
    IF i > Len(points) THEN Ok(entries)
    ELSE IF from_value(points[i].payload).ok
         THEN EntriesOfPoints(points, i + 1, Append(entries, Val(from_value(points[i].payload))))
         ELSE Err(from_value(points[i].payload).e)

\* MemoryStore::get_similar / get_by_filter: search_points returns points of the collection
\* with their payload, here the first `hits` of them, and each is deserialized
GetSimilar ==
    /\ pc = "store"
    /\ \E hits \in 0..TOP_K :
         /\ hits <= Len(vdb)
         /\ fn' = "get_similar"
         /\ input' = SubSeq(vdb, 1, hits)
         /\ output' = <<EntriesOfPoints(SubSeq(vdb, 1, hits), 1, <<>>)>>
    /\ pc' = "read"
    /\ UNCHANGED <<event, result, riposte, thread, post_data>>
    /\ UNCHANGED <<confVars, service, poolVars, ctlVars, histVars, envVars, metVars>>

NextStore ==
    \/ Put
    \/ PutBatch
    \/ GetSimilar

SpecStore == InitStore /\ [][NextStore]_vars

-----------------------------------------------------------------------------
(* The worker pool of main: the dispatcher task and the handler tasks *)

\* WORKER_COUNT of the environment parsed as usize, or the default
WorkerCounts == 0..DEFAULT_WORKER_COUNT

InitPool ==
    /\ Idle
    /\ allowlist = None
    /\ repertoire = {}
    /\ event = LoopEvent
    /\ pc = "main"
    /\ NoIngest
    /\ worker_count \in WorkerCounts
    /\ NoPool /\ NoService

\* the messages the jetstream has sent so far
Delivered ==
    Len(msg_rx) + Len(message) + Cardinality({ m \in Messages : handlers[m] # "none" })

\* the jetstream sends a message into the channel
Arrive ==
    /\ Delivered < MaxEvents
    /\ msg_rx' = Append(msg_rx, Delivered + 1)
    /\ UNCHANGED <<worker_count, message, semaphore, permit, handlers>>
    /\ UNCHANGED <<funVars, confVars, service, ingVars, ctlVars, histVars, envVars, metVars>>

\* dispatcher: msg_rx.recv_async().await returns the next message
Receive ==
    /\ message = None /\ msg_rx # <<>>
    /\ message' = Some(Head(msg_rx))
    /\ msg_rx' = Tail(msg_rx)
    /\ UNCHANGED <<worker_count, semaphore, permit, handlers>>
    /\ UNCHANGED <<funVars, confVars, service, ingVars, ctlVars, histVars, envVars, metVars>>

\* a variant that hands out a permit whether or not the semaphore has one
acquire_unchecked(m) ==
    /\ semaphore' = IF semaphore > 0 THEN semaphore - 1 ELSE 0
    /\ permit' = permit \cup {m}

\* c_semaphore.clone().acquire_owned().await: returns when a permit is left, and takes it
acquire_owned(m) ==
    /\ semaphore > 0
    /\ semaphore' = semaphore - 1
    /\ permit' = permit \cup {m}

\* dispatcher: the permit is acquired and the handler task spawned with it
Admit ==
    /\ IsSome(message)
    /\ acquire_owned(Unwrap(message))
    /\ handlers' = [handlers EXCEPT ![Unwrap(message)] = "running"]
    /\ message' = None
    /\ UNCHANGED <<worker_count, msg_rx>>
    /\ UNCHANGED <<funVars, confVars, service, ingVars, ctlVars, histVars, envVars, metVars>>

\* how handle_message ends: it returns Ok, it returns Err, or it panics
Outcomes == {"Ok", "Err", "panic"}

\* the permit goes back to the semaphore: drop(permit), or the drop of the task's
\* future when the task unwinds
DropPermit(m) ==
    /\ semaphore' = semaphore + 1
    /\ permit' = permit \ {m}

\* a variant that gives the permit back only when handle_message returned Ok
HandledKeepsPermitOnFailure(m) ==
    /\ handlers[m] = "running"
    /\ \E outcome \in Outcomes :
         /\ handlers' = [handlers EXCEPT ![m] = outcome]
         /\ IF outcome = "Ok" THEN DropPermit(m) ELSE UNCHANGED <<semaphore, permit>>
    /\ UNCHANGED <<worker_count, msg_rx, message>>
    /\ UNCHANGED <<funVars, confVars, service, ingVars, ctlVars, histVars, envVars, metVars>>

\* handler task of message m: handle_message ends, the permit is dropped
Handled(m) ==
    /\ handlers[m] = "running"
    /\ \E outcome \in Outcomes : handlers' = [handlers EXCEPT ![m] = outcome]
    /\ DropPermit(m)
    /\ UNCHANGED <<worker_count, msg_rx, message>>
    /\ UNCHANGED <<funVars, confVars, service, ingVars, ctlVars, histVars, envVars, metVars>>

NextPool ==
    \/ Arrive
    \/ Receive
    \/ Admit
    \/ \E m \in Messages : Handled(m)

\* the tasks are scheduled by the runtime: the dispatcher and every handler task make
\* their step when they can
SpecPool ==
    /\ InitPool /\ [][NextPool]_vars
    /\ WF_vars(Receive) /\ WF_vars(Admit)
    /\ \A m \in Messages : WF_vars(Handled(m))

-----------------------------------------------------------------------------
(* The LLMService and its system prompt *)

\* a text as its lines; the line of the catalog for one tool: "- {name}: {description}"
CatalogLine(name) ==
    CASE name = "calculator" -> "- calculator: A powerful calculator tool"
      [] name = "ddg_search" -> "- ddg_search: Searches the web using DuckDuckGo."
      [] name = "website"    -> "- website: Fetches a website."

\* str::trim().is_empty()
IsBlank(text) == \A i \in DOMAIN text : text[i] \in {"", " "}

\* the tool context LLMService::new composes
tool_context(tools) ==
    IF tools = <<>> THEN <<>>
    ELSE <<"You have access to the following tools:">>
         \o [i \in DOMAIN tools |-> CatalogLine(tools[i])]
         \o <<"For each function call, follow this exact format:">>

\* format!("{}\n\n{}", tool_context, user_prompt), or the tool context alone
merged_prompt(prompt, tools) ==
    IF IsSome(prompt) /\ ~IsBlank(Unwrap(prompt))
    THEN tool_context(tools) \o <<"">> \o Unwrap(prompt)
    ELSE tool_context(tools)

\* the prompts a caller passes, as lines
Prompts == { <<>>, <<" ">>, <<"be kind">>, <<"be brief">> }

\* the tool lists a caller passes
ToolLists == SeqsUpTo(Range(Tools), MaxTools - 1)

\* LLMService::new(system_prompt, tools, provider)
new(prompt, tools) == [system_prompt |-> Some(merged_prompt(prompt, tools)), tools |-> tools]

InitService ==
    /\ Idle
    /\ allowlist = None
    /\ repertoire = {}
    /\ event = LoopEvent
    /\ pc = "cli"
    /\ NoIngest
    /\ worker_count = DEFAULT_WORKER_COUNT /\ NoPool
    /\ \E prompt \in {None} \cup {Some(p) : p \in Prompts}, tools \in ToolLists :
         service = new(prompt, tools)

\* self.tools.iter().position(|t| t.name() == tool_name)
RECURSIVE position(_, _, _)
position(tools, name, i) ==
    IF i > Len(tools) THEN None
    ELSE IF tools[i] = name THEN Some(i)
    ELSE position(tools, name, i + 1)

\* Vec::remove(pos)
RemoveAt(tools, pos) == SubSeq(tools, 1, pos - 1) \o SubSeq(tools, pos + 1, Len(tools))

\* LLMService::add_tool(tool)
add_tool ==
    /\ pc = "cli" /\ Len(service.tools) < MaxTools
    /\ \E tool \in Range(Tools) :
         /\ service' = [service EXCEPT !.tools = Append(@, tool)]
         /\ fn' = "add_tool" /\ input' = tool /\ output' = <<>>
    /\ UNCHANGED <<confVars, ingVars, ctlVars, histVars, envVars, metVars, poolVars>>

\* LLMService::remove_tool(tool_name): an unknown name is an error and changes nothing
remove_tool ==
    /\ pc = "cli"
    /\ \E tool_name \in Range(Tools) :
         LET pos == position(service.tools, tool_name, 1)
         IN /\ service' = IF IsSome(pos)
                          THEN [service EXCEPT !.tools = RemoveAt(@, Unwrap(pos))]
                          ELSE service
            /\ fn' = "remove_tool" /\ input' = tool_name
            /\ output' = <<IF IsSome(pos) THEN Ok("()") ELSE Err(Str("Tool not found"))>>
    /\ UNCHANGED <<confVars, ingVars, ctlVars, histVars, envVars, metVars, poolVars>>

\* LLMService::set_system_prompt(prompt), the /set_prompt command of the CLI
set_system_prompt ==
    /\ pc = "cli"
    /\ \E prompt \in Prompts :
         /\ service' = [service EXCEPT !.system_prompt = Some(prompt)]
         /\ fn' = "set_system_prompt" /\ input' = prompt /\ output' = <<>>
    /\ UNCHANGED <<confVars, ingVars, ctlVars, histVars, envVars, metVars, poolVars>>

\* generate_response: the first message, ChatMessage::system(system_prompt.unwrap_or_default())
SystemMessage == IF IsSome(service.system_prompt) THEN Unwrap(service.system_prompt) ELSE <<>>

NextService ==
    \/ add_tool
    \/ remove_tool
    \/ set_system_prompt

SpecService == InitService /\ [][NextService]_vars

\* LLMService::list_tools and LLMService::find_tool
list_tools == service.tools
find_tool(tool_name) ==
    IF IsSome(position(service.tools, tool_name, 1))
    THEN Some(service.tools[Unwrap(position(service.tools, tool_name, 1))])
    ELSE None

-----------------------------------------------------------------------------
(* The relevance gate of ingest *)

\* the three relations a post can have to the agent, stated on the record itself
ReplyToSelf(post) ==
    /\ post.reply # None
    /\ AgentDid \in Range(Unwrap(post.reply).parent.uri)

MentionOfSelf(post) ==
    /\ post.facets # None
    /\ \E facet \in Range(Unwrap(post.facets)) :
         \E f \in Range(facet.features) :
            f.union = "Refs" /\ f.kind = "Mention" /\ f.did = AgentDid

QuoteOfSelf(post) ==
    /\ post.embed # None
    /\ Unwrap(post.embed).union = "Refs"
    /\ Unwrap(post.embed).kind \in {"Record", "RecordWithMedia"}
    /\ AgentDid \in Range(Unwrap(post.embed).uri)

Addressed(post) == ReplyToSelf(post) \/ MentionOfSelf(post) \/ QuoteOfSelf(post)

Allowed(did) == allowlist = None \/ did \in Range(Unwrap(allowlist))

\* the event carries a post record that decodes
HasPost ==
    /\ IsSome(event.commit)
    /\ IsSome(Unwrap(event.commit).record)
    /\ IsSome(Unwrap(event.commit).cid)
    /\ Unwrap(Unwrap(event.commit).record).decodable

ThePost == Unwrap(Unwrap(event.commit).record).data

\* ingest did something beyond the gate: a thread fetch, an embedding, a retrieval, a call of
\* the gateway, a reply, or a memory entry
PastGate ==
    \/ pc \in {"fetch", "search", "generate", "tools", "followup", "post"}
    \/ fetchLog # <<>> \/ embedLog # <<>> \/ searchLog # <<>> \/ gwLog # <<>>
    \/ roundLog # <<>> \/ created # <<>> \/ vdb # <<>> \/ memtries # <<>>

\* C1: an inbound post gets past the gate of ingest only if it is addressed to the agent
\* and, when an allowlist is configured, its author is on the list; in every other case
\* ingest fetches no thread, calls no embedding, retrieval or gateway, posts no reply,
\* writes no memory, and returns Ok.
C1_Gate ==
    /\ PastGate => (HasPost /\ Addressed(ThePost) /\ Allowed(event.did))
    /\ (HasPost /\ ~(Addressed(ThePost) /\ Allowed(event.did)) /\ pc # "start")
          => (pc = "done" /\ result = <<"Ok">> /\ ~PastGate)
    /\ (HasPost /\ Addressed(ThePost) /\ Allowed(event.did) /\ pc # "start") => fetchLog # <<>>

\* a mention of the agent by an author who is not on the configured list ends at the gate
C1_Witness ==
    /\ pc = "done" /\ result = <<"Ok">> /\ ~PastGate
    /\ HasPost /\ Addressed(ThePost) /\ ~Allowed(event.did)

-----------------------------------------------------------------------------
(* The memory of an exchange *)

IsStm(entry) == "stm" \in Range(entry.tags)

\* C6: when ingest has posted a reply, exactly one exchange entry tagged "stm" has been
\* written to the vector store; when no reply was posted, none has.
C6_ExchangeStored ==
    (pc = "done") =>
        /\ Len(SelectSeq(vdb, IsStm)) = Len(created)
        /\ Len(vdb) = Len(created)

-----------------------------------------------------------------------------
(* is_me *)

\* C2: is_me returns true if and only if the post is a reply whose parent URI contains the
\* agent's identifier, or a mention facet targets the agent, or the post quotes a record
\* (alone or with media) whose URI contains the agent's identifier; unknown facet and embed
\* variants never match and the result is always a boolean.
C2_IsMe ==
    (fn = "is_me" /\ output # <<>>) =>
        /\ output[1] \in BOOLEAN
        /\ output[1] <=> Addressed(input)

\* a quote with media of the agent's post, beside a facet of an unknown variant
C2_Witness ==
    /\ fn = "is_me" /\ output = <<TRUE>>
    /\ ~ReplyToSelf(input) /\ ~MentionOfSelf(input) /\ QuoteOfSelf(input)
    /\ Unwrap(input.embed).kind = "RecordWithMedia"
    /\ input.facets # None
    /\ \E facet \in Range(Unwrap(input.facets)) :
         \E f \in Range(facet.features) : f.union = "Unknown"

-----------------------------------------------------------------------------
(* The tool-call loop *)

\* the k-th request has been answered with an output
AnsweredOk(k) == IsSome(gwLog[k].resp) /\ Unwrap(gwLog[k].resp).ok
Out(k) == Val(Unwrap(gwLog[k].resp))

\* the last answer is there and the loop has looked at it
Parsed ==
    /\ pc \in {"tools", "post", "done"}
    /\ gwLog # <<>>
    /\ AnsweredOk(Len(gwLog))

FirstCall(out) ==
    LET calls == parse_tool_calls(out) IN
    IF calls = <<>> THEN None ELSE Some(<<calls[1].tool_name, calls[1].tool_args>>)

\* the outputs n-3 .. n all have a first call, with one and the same (name, arguments) pair
FourAlike(n) ==
    /\ n >= TOOL_CALL_TIMES + 1
    /\ \A k \in (n - TOOL_CALL_TIMES)..n :
         AnsweredOk(k) /\ FirstCall(Out(k)) # None /\ FirstCall(Out(k)) = FirstCall(Out(n))

\* C3: when four consecutive model outputs have the same (name, arguments) pair in their
\* first tool call, the loop aborts on the fourth: its tools are not run, no further request
\* goes to the gateway, and the final answer is the output the third tool round got back.
\* The loop aborts in no other case.
C3_AbortOnFourth ==
    LET n == Len(gwLog) IN
    /\ (Parsed /\ FourAlike(n)) =>
          /\ loopState = "ABORTED"
          /\ pc # "tools"
          /\ Len(roundLog) = n - 1
          /\ response_accum = Out(n)
          /\ last_tool_call_times = TOOL_CALL_TIMES
    /\ loopState = "ABORTED" => (Parsed /\ FourAlike(n))

\* the loop was aborted after exactly three tool rounds and four requests
C3_Witness ==
    /\ loopState = "ABORTED" /\ pc = "post"
    /\ Len(gwLog) = 4 /\ Len(roundLog) = 3
    /\ FourAlike(4)

\* C4: the loop reaches DONE or ABORTED (or the error of a gateway call) after finitely many
\* gateway round trips, whatever the model outputs are, provided every call returns.
C4_Terminates == <>(loopState \in {"DONE", "ABORTED", "ERROR"})

NoDirective(out) == \A i \in DOMAIN out : out[i].seg # "call"

\* C8: a model output without a tool-call directive, initial or follow-up, ends the loop in
\* DONE with that output as the final answer; no tool is run for it and no request follows
\* it.  The loop is DONE in no other case than an output without a parsed call.
C8_NoDirectiveDone ==
    LET n == Len(gwLog) IN
    /\ (Parsed /\ NoDirective(Out(n))) =>
          /\ loopState = "DONE"
          /\ pc # "tools"
          /\ response_accum = Out(n)
          /\ Len(roundLog) = n - 1
          /\ \A r \in Range(created) : r.text = FinalText(Out(n))
    /\ loopState = "DONE" => (Parsed /\ parse_tool_calls(Out(n)) = <<>>)

\* a follow-up without a directive ended the loop and was posted
C8_Witness ==
    /\ loopState = "DONE" /\ pc = "done"
    /\ Len(gwLog) >= 2 /\ Len(roundLog) = Len(gwLog) - 1
    /\ NoDirective(Out(Len(gwLog)))
    /\ created # <<>>

\* C10: every tool round with n parsed calls extends the conversation by the output as one
\* assistant message, then n tool messages in call order, each with the serialized result
\* or an "Error: ..." text, and then sends exactly one follow-up request with the extended
\* conversation.
C10_RoundExtends ==
    /\ gwLog # <<>> => Len(gwLog) = Len(roundLog) + 1
    /\ gwLog # <<>> => messages = gwLog[Len(gwLog)].req
    /\ \A k \in DOMAIN roundLog :
         LET round  == roundLog[k]
             n      == Len(round.calls)
             before == gwLog[k].req
             after  == gwLog[k + 1].req
             m      == Len(before)
         IN /\ AnsweredOk(k)
            /\ round.calls = parse_tool_calls(Out(k))
            /\ n >= 1
            /\ Len(round.results) = n
            /\ Len(after) = m + 1 + n
            /\ SubSeq(after, 1, m) = before
            /\ after[m + 1] = Assistant(Out(k))
            /\ \A i \in 1..n :
                 after[m + 1 + i] =
                    ToolResponseMsg(round.calls[i].tool_name,
                        IF round.results[i].res.ok
                        THEN Str(Val(round.results[i].res))
                        ELSE Str("Error: ") \o round.results[i].res.e)

\* a round of two calls, one failing and one succeeding, whose follow-up was answered
C10_Witness ==
    /\ Len(roundLog) >= 1
    /\ Len(roundLog[1].calls) = 2
    /\ ~roundLog[1].results[1].res.ok
    /\ roundLog[1].results[2].res.ok
    /\ Len(gwLog) >= 2 /\ AnsweredOk(2)

-----------------------------------------------------------------------------
(* Deduplication, reconstruction, execution of a batch *)

Ids(s) == [i \in DOMAIN s |-> s[i].id]

\* the entries of s whose identifier has not occurred before them, in the order of s
RECURSIVE FirstOccurrencesFrom(_, _)
FirstOccurrencesFrom(s, i) ==
    IF i > Len(s) THEN <<>>
    ELSE (IF \E j \in 1..(i - 1) : s[j].id = s[i].id THEN <<>> ELSE <<s[i]>>)
         \o FirstOccurrencesFrom(s, i + 1)

\* the ranked list the deduplication is given
Ranked ==
    IF fn = "dedup_by_key" THEN input ELSE sort_by_score(batch_search_similar(input))

\* C5: deduplication removes every entry whose identifier occurred earlier in the ranked
\* list and keeps the first occurrences in rank order, wherever the duplicates are.
C5_DedupRemovesAll ==
    (fn \in {"dedup_by_key", "legacy_dedup"} /\ output # <<>>) =>
        Ids(output[1]) = Ids(FirstOccurrencesFrom(Ranked, 1))

\* C7: the list thread reconstruction returns is non-decreasing in the timestamps of the
\* posts, oldest first.
C7_Chronological ==
    (fn = "atp_thread_to_json" /\ output # <<>> /\ IsSome(output[1])) =>
        LET posts == Unwrap(output[1]) IN
        \A i, j \in DOMAIN posts :
            i < j => Unwrap(posts[i].indexed_at) <= Unwrap(posts[j].indexed_at)

\* C9: execute_tool_calls returns one (name, result) pair per call of the batch, in the
\* order of the calls: the value of the tool on success, an error when the tool fails or is
\* not registered; a failing call does not keep the later calls from being executed.
C9_ExecuteAll ==
    (fn = "execute_tool_calls" /\ output # <<>>) =>
        LET calls   == input
            results == output[1].results
            oracle  == output[1].oracle
        IN /\ Len(results) = Len(calls)
           /\ \A i \in DOMAIN calls :
                /\ results[i].name = calls[i].tool_name
                /\ IF calls[i].tool_name \in Range(Tools)
                   THEN IF oracle[i].ok
                        THEN results[i].res = Ok(Val(oracle[i]))
                        ELSE /\ ~results[i].res.ok
                             /\ results[i].res.e = Str("Error: ") \o oracle[i].e
                   ELSE results[i].res = Err(Str("Tool not found"))

\* an unregistered tool, then a failing tool, then a call that succeeds
C9_Witness ==
    /\ fn = "execute_tool_calls" /\ output # <<>>
    /\ Len(input) = 3
    /\ input[1].tool_name = "weather"
    /\ input[2] = ToolCall("function", "calculator", "obj()")
    /\ output[1].results[1].res = Err(Str("Tool not found"))
    /\ ~output[1].results[2].res.ok
    /\ output[1].results[3].res.ok

-----------------------------------------------------------------------------
(* Errors of tools and of collaborators *)

Registered(name) == name \in Range(Tools)

\* the result recorded for a registered tool is one of the outcomes of its execute
IsOutcome(call, res) ==
    IF res.ok THEN Ok(Val(res)) \in ExecOutcomes(call.tool_name, call.tool_args)
    ELSE \E o \in ExecOutcomes(call.tool_name, call.tool_args) :
            ~o.ok /\ res.e = Str("Error: ") \o o.e

\* C11: a call that names no registered tool gets the result "Tool not found", which goes
\* into the conversation as an error text; the other calls of the batch are executed, the
\* follow-up request is made, and ingest is not ended by it.
C11_NotFoundFedBack ==
    /\ \A k \in DOMAIN roundLog :
         LET round == roundLog[k]
             m     == Len(gwLog[k].req)
         IN \A i \in DOMAIN round.calls :
              ~Registered(round.calls[i].tool_name) =>
                 /\ Len(round.results) = Len(round.calls)
                 /\ round.results[i].res = Err(Str("Tool not found"))
                 /\ Len(gwLog) >= k + 1
                 /\ gwLog[k + 1].req[m + 1 + i] =
                       ToolResponseMsg(round.calls[i].tool_name,
                                       <<Txt("Error: "), Txt("Tool not found")>>)
                 /\ \A j \in DOMAIN round.calls :
                      Registered(round.calls[j].tool_name) =>
                         IsOutcome(round.calls[j], round.results[j].res)
                 /\ (Len(roundLog) = k /\ pc = "followup") =>
                       (result = None /\ loopState = "AWAITING_FOLLOWUP")
    /\ (result # None /\ result[1] = "Err") =>
          result[2] \in {"gateway", "cid", "create_record", "embed"}

\* a batch with an unregistered tool first and the calculator second was run, the follow-up
\* was answered and the reply posted
C11_Witness ==
    /\ pc = "done" /\ result = <<"Ok">> /\ created # <<>>
    /\ Len(roundLog) >= 1
    /\ roundLog[1].calls[1].tool_name = "weather"
    /\ roundLog[1].results[2].res.ok

\* what an aborted event leaves: no reply, no memory, one error counted, none ingested
EventAborted ==
    /\ pc = "done"
    /\ result # None /\ result[1] = "Err"
    /\ created = <<>> /\ vdb = <<>> /\ memtries = <<>>
    /\ ingest_errors = 1 /\ posts_ingested = 0

ThreadEmbedFailed == \E c \in Range(embedLog) : c.what = "thread" /\ ~c.ok

GatewayFailed(k) == IsSome(gwLog[k].resp) /\ ~Unwrap(gwLog[k].resp).ok

\* C12: when the thread fetch, the embedding of the thread messages, the similarity query
\* or a gateway call (the first or a follow-up) fails, the event is aborted: no reply, no
\* memory, ingest returns the error and the error counter, not the ingested counter, is
\* incremented.  No reply is ever posted without the retrieved context.
C12_FailureAborts ==
    /\ (result # None /\ result[1] = "Err" /\ result[2] \in {"thread", "retrieval", "gateway"})
          => EventAborted
    /\ ThreadEmbedFailed =>
          (EventAborted /\ result = <<"Err", "embed">> /\ searchLog = <<>> /\ gwLog = <<>>)
    /\ \A k \in DOMAIN gwLog :
          GatewayFailed(k) =>
             (EventAborted /\ result = <<"Err", "gateway">> /\ k = Len(gwLog))
    /\ created # <<>> =>
          /\ post_data # <<>>
          /\ ~ThreadEmbedFailed
          /\ searchLog # <<>>
          /\ messages # <<>> /\ messages[1].role = "system"
          /\ \A k \in DOMAIN gwLog : AnsweredOk(k)

\* the follow-up request of a tool round failed and the event was aborted
C12_Witness ==
    /\ EventAborted /\ result = <<"Err", "gateway">>
    /\ Len(roundLog) >= 1 /\ Len(gwLog) >= 2
    /\ GatewayFailed(Len(gwLog))

-----------------------------------------------------------------------------
(* Post-processing of the final text *)

\* the positions of the delimiter in s, and the last of them (0 when there is none)
ThinkEnds(s) == { i \in DOMAIN s : s[i] = ThinkEnd }
LastThinkEnd(s) ==
    IF ThinkEnds(s) = {} THEN 0
    ELSE CHOOSE i \in ThinkEnds(s) : \A j \in ThinkEnds(s) : j <= i

\* s from its first to its last piece that is not white space
Trimmed(s) ==
    LET solid == { i \in DOMAIN s : ~IsSpace(s[i]) } IN
    IF solid = {} THEN <<>>
    ELSE SubSeq(s, CHOOSE i \in solid : \A j \in solid : i <= j,
                   CHOOSE i \in solid : \A j \in solid : j <= i)

\* C13: the posted text is what follows the last "</think>" of the final text, trimmed;
\* "<think>...</think> actual reply" gives exactly "actual reply", and a text without the
\* delimiter is only trimmed.
C13_FinalText ==
    (fn = "final_text" /\ output # <<>>) =>
        /\ output[1] = Trimmed(SubSeq(input, LastThinkEnd(input) + 1, Len(input)))
        /\ input = ThinkText => output[1] = Str("actual reply")
        /\ ThinkEnds(input) = {} => output[1] = Trimmed(input)
        /\ (ThinkEnds(input) = {} /\ input # <<>> /\ ~IsSpace(input[1])
               /\ ~IsSpace(input[Len(input)])) => output[1] = input

\* the output of the example, processed
C13_Witness ==
    /\ fn = "final_text"
    /\ input = <<Txt("<think>"), Txt("hmm"), ThinkEnd, Txt(" "), Txt("actual reply")>>
    /\ output = <<Str("actual reply")>>

\* C14: when the final text is empty after the stripping and trimming, the turn ends
\* without a reply and without a memory entry, ingest returns Ok and the event counts as
\* ingested, not as an error.
C14_EmptyReply ==
    (/\ loopState \in {"DONE", "ABORTED"}
     /\ Trimmed(SubSeq(response_accum, LastThinkEnd(response_accum) + 1,
                       Len(response_accum))) = <<>>)
    => /\ pc = "done"
       /\ result = <<"Ok">>
       /\ created = <<>> /\ memtries = <<>> /\ vdb = <<>>
       /\ \A c \in Range(embedLog) : c.what # "exchange"
       /\ posts_ingested = 1 /\ ingest_errors = 0 /\ ingest_latency = 1

\* the model answered with reasoning only, for an event whose cid does not even parse
C14_Witness ==
    /\ pc = "done" /\ result = <<"Ok">> /\ loopState = "DONE"
    /\ response_accum = EmptyText
    /\ ~CidOk(Unwrap(event.commit).cid[1])
    /\ created = <<>> /\ posts_ingested = 1

-----------------------------------------------------------------------------
(* Memory entries *)

SameExchange(x, y) ==
    x.post = y.post /\ x.response = y.response /\ x.poster_did = y.poster_did

\* C15: the identifier of a memory entry is a function of its canonical content alone: two
\* exchanges with the same {post, response, poster_did} get the same identifier, two source
\* posts with the same URI get the same identifier, whatever the time and the rest, so the
\* second write goes to the entry of the first.
C15_IdDeterministic ==
    /\ (fn = "exchange_entries" /\ output # <<>>) =>
          /\ SameExchange(input[1], input[2]) => output[1].a.id = output[1].b.id
          /\ SameExchange(input[1], input[2]) => Len(output[1].store) = 1
    /\ (fn = "source_entries" /\ output # <<>>) =>
          /\ (input[1].post.uri = input[2].post.uri) => output[1].a.id = output[1].b.id
          /\ (input[1].post.uri = input[2].post.uri) => Len(output[1].store) = 1

\* the same exchange committed at two times, for two different thread roots
C15_Witness ==
    /\ fn = "exchange_entries" /\ output # <<>>
    /\ SameExchange(input[1], input[2])
    /\ input[1].now # input[2].now /\ input[1].root_uri # input[2].root_uri
    /\ output[1].a.id = output[1].b.id
    /\ Len(output[1].store) = 1

\* ---------------------------------------------------------------------------
\* C16
\* the conversation ids carried by the entries ingest builds for one event:
\* memory_entries for the posts of the thread, memtries for the exchange
ConversationIds ==
    { memory_entries[i].conversation_id : i \in DOMAIN memory_entries }
        \cup { memtries[i].conversation_id : i \in DOMAIN memtries }

\* C16: all memory entries created for one logical conversation carry the
\* same conversation_id: once ingest has built the entries for the source
\* posts of the thread and the entry for the finished exchange, they all
\* share one conversation_id.
C16_SharedConversationId ==
    (memory_entries # <<>> /\ memtries # <<>>) => Cardinality(ConversationIds) = 1

\* ---------------------------------------------------------------------------
\* C17
\* C17: a persisted MemoryEntry is immutable: no put or put_batch call changes
\* a point that is already in the store; every point stored before the call is
\* in the store, with the same vector and the same payload, after it.
C17_Immutable ==
    [][\A i \in DOMAIN vdb : \E j \in DOMAIN vdb' : vdb'[j] = vdb[i]]_vars

\* ---------------------------------------------------------------------------
\* C18, C19
\* the handler tasks that are running handle_message
Running == { m \in Messages : handlers[m] = "running" }

\* C18: at every moment the number of events being handled is at most the
\* pool size, and every handler that runs owns a permit the dispatcher
\* acquired for it before it spawned the handler.
C18_PoolBound ==
    /\ Cardinality(Running) <= worker_count
    /\ Running \subseteq permit

\* the default pool is full and one more message waits at the dispatcher for a permit
C18_Witness ==
    /\ worker_count = DEFAULT_WORKER_COUNT
    /\ Cardinality(Running) = DEFAULT_WORKER_COUNT
    /\ IsSome(message) /\ handlers[Unwrap(message)] = "none"
    /\ semaphore = 0

\* C19: every permit acquired for a message is given back when its handling
\* ends, whether handle_message returned Ok, returned Err or panicked: the
\* permits held and the permits left always add up to the pool size, every
\* running handler ends without its permit, and every message in the channel
\* of a pool with at least one worker gets its handler.
C19_PermitReleased ==
    /\ [](semaphore + Cardinality(permit) = worker_count /\ permit = Running)
    /\ \A m \in Messages :
          (handlers[m] = "running") ~> (handlers[m] \in Outcomes /\ m \notin permit)
    /\ \A m \in Messages :
          ((IsSome(message) /\ Unwrap(message) = m /\ worker_count > 0)
              ~> (handlers[m] # "none"))

\* a pool of one worker: the first handling failed, the second panicked, and the
\* third message has been admitted
C19_Witness ==
    /\ worker_count = 1
    /\ handlers[1] = "Err" /\ handlers[2] = "panic" /\ handlers[3] = "running"
    /\ permit = {3} /\ semaphore = 0

Advertised == { name \in Range(Tools) : CatalogLine(name) \in Range(SystemMessage) }

\* C21: after any sequence of new, add_tool, remove_tool and
\* set_system_prompt, the system prompt sent to the model holds the catalog
\* line of exactly the tools registered at that moment.
C21_CatalogCurrent == Advertised = Range(service.tools)

\* ---------------------------------------------------------------------------
\* C22
\* the plain rendering of a post: "{author}: {text}", nothing about its embed
PlainMessage(post) == User(post.author \o <<Txt(": ")>> \o post.text)

IsUser(msg) == msg.role = "user"

\* C22: the summary of a post's embed is never part of the message text sent
\* to the model gateway: in every request the messages of the thread are the
\* plain renderings of its posts.
C22_NoEmbedSummarySent ==
    \A k \in DOMAIN gwLog :
        SelectSeq(gwLog[k].req, IsUser) = [i \in 1..Len(post_data) |-> PlainMessage(post_data[i])]

\* ---------------------------------------------------------------------------
\* C23
\* the one query of a turn: the embedding of the last of the texts, the "stm" filter, K = 2
LastMessageQuery(texts) ==
    <<[vector |-> Vector(texts[Len(texts)]), tags |-> Some(<<"stm">>), top_k |-> TOP_K]>>

\* the bot: the queries ingest has sent to the vector store are the one query of the turn
BotQueriesLastOnce ==
    searchLog # <<>> => searchLog = LastMessageQuery(Texts(thread))

\* C23: the vector store is queried exactly once per turn, with the embedding
\* of the last message of the thread, top-K = 2 and the filter on the tag
\* "stm"; in the bot and in the legacy ingestor.
C23_QueryLastOnce ==
    /\ BotQueriesLastOnce
    /\ (fn = "legacy_queries" /\ output # <<>> /\ input # <<>>)
          => output[1] = LastMessageQuery(input)

\* ---------------------------------------------------------------------------
\* C24, C25
Resolved == fn = "create_custom_resolver" /\ output # <<>>
ModelName == input.service_target.model.model_name
KeySet(name) == IsSome(input.env[name])

\* C24: the resolver routes by the prefix of the model name: "akash/" gives
\* the Akash endpoint, the OpenAI adapter, bearer auth and the name without
\* the prefix; "gemini/" gives the GoogleAi adapter, API-key auth and the name
\* without the prefix; any other name gives the target back unchanged, auth
\* and endpoint still unset.
C24_RoutesByPrefix ==
    Resolved =>
      /\ (starts_with(ModelName, AkashPrefix) /\ KeySet("AKASH_API_KEY")) =>
            /\ output[1].ok
            /\ Val(output[1]).endpoint = Some(AkashEndpoint)
            /\ Val(output[1]).model.adapter_kind = "OpenAI"
            /\ Val(output[1]).auth = Some(<<"Bearer", Unwrap(input.env["AKASH_API_KEY"])>>)
            /\ AkashPrefix \o Val(output[1]).model.model_name = ModelName
      /\ (starts_with(ModelName, GeminiPrefix) /\ KeySet("GEMINI_API_KEY")) =>
            /\ output[1].ok
            /\ Val(output[1]).model.adapter_kind = "GoogleAi"
            /\ Val(output[1]).auth = Some(<<"ApiKey", Unwrap(input.env["GEMINI_API_KEY"])>>)
            /\ GeminiPrefix \o Val(output[1]).model.model_name = ModelName
      /\ (~starts_with(ModelName, AkashPrefix) /\ ~starts_with(ModelName, GeminiPrefix)) =>
            /\ output[1] = Ok(input.service_target)
            /\ Val(output[1]).auth = None /\ Val(output[1]).endpoint = None

\* "akash/akash/gpt-3.5-turbo" is routed to Akash and loses one prefix only
C24_Witness ==
    /\ Resolved /\ output[1].ok
    /\ ModelName = <<"akash", "/", "akash">>
    /\ Val(output[1]).model = [adapter_kind |-> "OpenAI", model_name |-> <<"akash">>]

\* C25: the resolver returns an error and no service target when the name has
\* the "akash/" prefix and AKASH_API_KEY is unset, or the "gemini/" prefix and
\* GEMINI_API_KEY is unset, and the message names the variable as
\* "<VAR> not found"; with the key of the prefix set it returns a target.
C25_MissingKeyFails ==
    Resolved =>
      /\ (starts_with(ModelName, AkashPrefix) /\ ~KeySet("AKASH_API_KEY")) =>
            ~output[1].ok /\ output[1].v = <<>>
            /\ output[1].e[2] = "AKASH_API_KEY not found: "
      /\ (starts_with(ModelName, GeminiPrefix) /\ ~KeySet("GEMINI_API_KEY")) =>
            ~output[1].ok /\ output[1].v = <<>>
            /\ output[1].e[2] = "GEMINI_API_KEY not found: "
      /\ ~output[1].ok =>
            \/ starts_with(ModelName, AkashPrefix) /\ ~KeySet("AKASH_API_KEY")
            \/ starts_with(ModelName, GeminiPrefix) /\ ~KeySet("GEMINI_API_KEY")

\* a gemini model while only the Akash key is set
C25_Witness ==
    /\ Resolved /\ ~output[1].ok
    /\ ModelName = <<"gemini", "/", "gpt-3.5-turbo">>
    /\ KeySet("AKASH_API_KEY") /\ ~KeySet("GEMINI_API_KEY")
    /\ output[1].e = <<"Auth", "GEMINI_API_KEY not found: ", "NotPresent">>

\* ---------------------------------------------------------------------------
\* C26, C27
\* the first (name, arguments) pair of the latest model output
NewPair == FirstCall(Out(Len(gwLog)))

\* the number of consecutive outputs, ending with output k, whose first pair is that of k
RECURSIVE Run(_)
Run(k) == IF k > 1 /\ FirstCall(Out(k - 1)) = FirstCall(Out(k)) THEN 1 + Run(k - 1) ELSE 1

\* C26: only the first parsed call of each batch takes part in the repetition
\* guard: once the loop has looked at an output with calls, the pair it
\* remembers is the first pair of that output and the counter is the number
\* of consecutive outputs with that first pair (at most the threshold),
\* whatever the other calls of the batches are; it aborts exactly when that
\* number passes the threshold.
C26_FirstCallOnly ==
    (Parsed /\ NewPair # None) =>
        /\ last_tool_call = NewPair
        /\ last_tool_call_times =
              IF Run(Len(gwLog)) > TOOL_CALL_TIMES THEN TOOL_CALL_TIMES ELSE Run(Len(gwLog))
        /\ (loopState = "ABORTED" <=> Run(Len(gwLog)) > TOOL_CALL_TIMES)

\* rounds 1 and 2 differ in the first call and share the second: no repetition;
\* rounds 3 and 4 share the first call and differ in the rest: a repetition
C26_Witness ==
    /\ Parsed /\ Len(gwLog) = 4
    /\ Out(1) = <<CallU, CallA>> /\ Out(2) = <<CallB, CallA>>
    /\ Out(3) = <<Txt("let me compute"), CallA>> /\ Out(4) = <<CallA2, CallB>>
    /\ Len(roundLog) = 3 /\ roundLog[2].calls[2] = roundLog[1].calls[2]
    /\ last_tool_call_times = 2

\* C27: when the first call of a round has a pair different from the pair
\* remembered from the round before, the counter is reset to 1 and the tools
\* run; the loop aborts only on a pair equal to the remembered one.
C27_ResetOnNewPair ==
    [][(pc \in {"generate", "followup"} /\ Parsed' /\ NewPair' # None) =>
          /\ (NewPair' # last_tool_call) =>
                /\ last_tool_call_times' = 1
                /\ last_tool_call' = NewPair'
                /\ loopState' = "EXECUTE_TOOLS"
          /\ (loopState' = "ABORTED") =>
                (NewPair' = last_tool_call /\ last_tool_call_times = TOOL_CALL_TIMES)]_vars

\* three rounds with one pair, then a round with another pair: the counter is 1 again
C27_Witness ==
    /\ Parsed /\ Len(gwLog) = 4 /\ pc = "tools"
    /\ FirstCall(Out(1)) = FirstCall(Out(2)) /\ FirstCall(Out(2)) = FirstCall(Out(3))
    /\ NewPair # None /\ NewPair # FirstCall(Out(3))
    /\ last_tool_call_times = 1

\* ---------------------------------------------------------------------------
\* C28
\* what follows the loop: the reply, if posted, carries the post-processed last
\* output; ingest ends with Ok and the exchange entry, or with the error of
\* create_record or of the embedding of the exchange
AfterLoopProceeds ==
    /\ pc \in {"post", "done"}
    /\ created # <<>> => created[1].text = FinalText(Out(Len(gwLog)))
    /\ pc = "done" =>
          \/ result = <<"Ok">> /\ (FinalText(Out(Len(gwLog))) # <<>> => created # <<>>)
          \/ result[1] = "Err" /\ result[2] \in {"cid", "create_record", "embed"}

\* C28: when the loop aborts on the repetition threshold, the final answer is
\* the last model output received, the tools of the aborting round are not
\* run and no request follows; the abort is not an error: post-processing,
\* reply and result proceed as they do for DONE.
C28_AbortNotError ==
    /\ loopState = "ABORTED" =>
          /\ AnsweredOk(Len(gwLog))
          /\ response_accum = Out(Len(gwLog))
          /\ Len(roundLog) = Len(gwLog) - 1
          /\ AfterLoopProceeds
    /\ loopState = "DONE" => AfterLoopProceeds

\* the loop aborted, the last output was posted as the reply and ingest returned Ok
C28_Witness ==
    /\ loopState = "ABORTED" /\ pc = "done" /\ result = <<"Ok">>
    /\ Len(gwLog) = 4 /\ Len(roundLog) = 3
    /\ created # <<>> /\ created[1].text = FinalText(Out(4))
    /\ memtries # <<>>


\* ---------------------------------------------------------------------------
\* C29
IsThreadView(u) == u.union = "Refs" /\ u.kind = "ThreadViewPost"

HasParentPost(node) == IsSome(node.parent) /\ IsThreadView(Unwrap(node.parent))

\* the number of posts from a node up to the first parent that is missing, not found,
\* blocked or unrecognized
RECURSIVE Steps(_)
Steps(node) ==
    IF HasParentPost(node) THEN 1 + Steps(Unwrap(Unwrap(node.parent).node)) ELSE 1

\* the post reached from a node after k parent links
RECURSIVE Visited(_, _)
Visited(node, k) ==
    IF k = 0 THEN node.post ELSE Visited(Unwrap(Unwrap(node.parent).node), k - 1)

SamePost(pd, pv) ==
    pd.uri = pv.uri /\ pd.author_did = pv.did /\ pd.indexed_at = Some(pv.indexed_at)

\* the result is the chain of the requested post, one post per step, the requested post last
IsParentChain(res, requested) ==
    LET steps == Steps(requested)
    IN /\ IsSome(res)
       /\ Len(Unwrap(res)) = steps
       /\ \A k \in 0..(steps - 1) :
            SamePost(Unwrap(res)[steps - k], Visited(requested, k))

\* C29: thread reconstruction starts at the requested post and follows the parent links,
\* collecting one post per step up to the first parent that is missing, not found, blocked
\* or unrecognized; a post without a parent yields a one-element thread, and the requested
\* post is the last element of the result.
C29_ParentChain ==
    (fn = "atp_thread_to_json" /\ output # <<>> /\ IsThreadView(input)) =>
        IsParentChain(output[1], Unwrap(input.node))

\* every post of the chain has a record that decodes
RECURSIVE ChainDecodes(_)
ChainDecodes(node) ==
    /\ node.post.decodable
    /\ HasParentPost(node) => ChainDecodes(Unwrap(Unwrap(node.parent).node))

\* the same statement for the threads whose records all decode
ParentChainOfDecodedPosts ==
    (fn = "atp_thread_to_json" /\ output # <<>> /\ IsThreadView(input)
        /\ ChainDecodes(Unwrap(input.node))) =>
        IsParentChain(output[1], Unwrap(input.node))

\* an isolated post whose record does not decode has been reconstructed
IsolatedUndecodable ==
    /\ fn = "atp_thread_to_json" /\ output # <<>> /\ IsThreadView(input)
    /\ ~HasParentPost(Unwrap(input.node)) /\ ~Unwrap(input.node).post.decodable


\* ---------------------------------------------------------------------------
\* C30
\* the fetch failed or its root is no thread-view post
NoThreadView(fetched) == ~fetched.ok \/ ~IsThreadView(Val(fetched))

\* the error the reconstruction ends with
ThreadError(fetched) == IF ~fetched.ok THEN fetched.e ELSE UnexpectedShape(Val(fetched))

\* C30: thread reconstruction fails with an error and returns no thread, not even a partial
\* one, when the thread fetch errors or when the fetched root is not a thread-view post
\* (not found, blocked, or an unknown variant).
C30_FetchErrors ==
    (fn \in {"thread_to_json", "atp_thread_to_chatmessages"} /\ output # <<>>
        /\ NoThreadView(input)) =>
        /\ ~output[1].ok
        /\ output[1].v = <<>>
        /\ output[1].e = ThreadError(input)

C30_Witness ==
    /\ fn = "thread_to_json" /\ output # <<>>
    /\ input.ok /\ Val(input) = ParentUnion("Refs", "BlockedPost", None)
    /\ output[1] = Err(Str("Unexpected thread type"))


\* ---------------------------------------------------------------------------
\* C31
\* the frames of collect_parents_recursive that are live when the walk is deepest: the call
\* for a thread view calls itself for a parent that is a ThreadViewPost before it returns
RECURSIVE NestedCalls(_)
NestedCalls(current_thread_view) ==
    IF IsSome(current_thread_view.parent)
    THEN IF Unwrap(current_thread_view.parent).union = "Refs"
            /\ Unwrap(current_thread_view.parent).kind = "ThreadViewPost"
         THEN 1 + NestedCalls(Unwrap(Unwrap(current_thread_view.parent).node))
         ELSE 1
    ELSE 1

\* C31: the parent-chain walk is an iterative traversal: the depth of nested calls during
\* reconstruction is constant, the same for a chain of one post and for longer chains.
C31_ConstantDepth ==
    (fn = "atp_thread_to_json" /\ output # <<>> /\ IsThreadView(input)) =>
        NestedCalls(Unwrap(input.node)) = 1

\* the walk of a chain of MaxThread posts has been made
LongestChainWalked ==
    /\ fn = "atp_thread_to_json" /\ output # <<>> /\ IsThreadView(input)
    /\ Steps(Unwrap(input.node)) = MaxThread
    /\ NestedCalls(Unwrap(input.node)) = MaxThread


\* ---------------------------------------------------------------------------
\* C32
\* retrieval returned two entries with the same identifier
TwoOfOneId(found) == Len(found) = 2 /\ found[1].id = found[2].id

\* C32: when retrieval returns two entries with the same identifier, the leading system
\* message of the context holds the content of that entry exactly once, and it stands
\* before the thread messages, which follow in thread order.
C32_DuplicateOnce ==
    (fn = "initial_messages" /\ output # <<>> /\ TwoOfOneId(input.similar_posts)) =>
        output[1] = <<System(input.similar_posts[1].content \o <<Txt("\n")>>)>> \o input.thread

C32_Witness ==
    /\ fn = "initial_messages" /\ output # <<>> /\ TwoOfOneId(input.similar_posts)
    /\ Len(input.thread) = 2
    /\ output[1][1].role = "system" /\ output[1][2] = input.thread[1]


\* ---------------------------------------------------------------------------
\* C33
\* an embedding call of the given kind has failed
EmbedFailed(what) == \E c \in Range(embedLog) : c.what = what /\ ~c.ok

\* C33: a failure of the archival path (the embedding of the individual posts) is isolated
\* from the primary path: no archival entry is built, the thread is embedded all the same,
\* an embedding error of ingest is one of the primary path, and once the loop has ended with
\* a non-empty text and a content id that parses, the reply has been sent to create_record.
C33_ArchivalIsolated ==
    EmbedFailed("archival") =>
        /\ memory_entries = <<>>
        /\ \E c \in Range(embedLog) : c.what = "thread"
        /\ (pc = "done" /\ result = <<"Err", "embed">>) =>
              (EmbedFailed("thread") \/ EmbedFailed("exchange"))
        /\ (pc = "done" /\ loopState \in {"DONE", "ABORTED"}
               /\ FinalText(response_accum) # <<>> /\ CidOk(Unwrap(event.commit).cid[1])) =>
              (created # <<>> \/ result = <<"Err", "create_record">>)

\* the archival embedding failed, and the reply was posted and ingest returned Ok
C33_Witness ==
    /\ EmbedFailed("archival")
    /\ pc = "done" /\ result = <<"Ok">>
    /\ created # <<>> /\ memtries # <<>>


\* ---------------------------------------------------------------------------
\* C34
\* C34: the text posted as a reply never holds a tool-call directive: whenever the loop has
\* ended, by DONE or by ABORTED, parse_tool_calls finds no call in the final answer, and
\* none in a text handed to create_record.
C34_NoDirectivePosted ==
    /\ loopState \in {"DONE", "ABORTED"} => parse_tool_calls(response_accum) = <<>>
    /\ \A i \in DOMAIN created : parse_tool_calls(created[i].text) = <<>>

\* the same for the loops that end with DONE
NoDirectiveWhenDone ==
    loopState = "DONE" =>
        /\ parse_tool_calls(response_accum) = <<>>
        /\ \A i \in DOMAIN created : parse_tool_calls(created[i].text) = <<>>

\* a reply with a directive in it has been posted
DirectivePosted == \E i \in DOMAIN created : parse_tool_calls(created[i].text) # <<>>


\* ---------------------------------------------------------------------------
\* C35
\* C35: the repetition guard of the CLI loop and the one of the bot loop are equivalent: fed
\* the same model outputs, both end in the same way at the same round, after the same number
\* of tool executions.
C35_GuardsEquivalent ==
    (fn = "run_guards" /\ output # <<>>) => output[1].bot = output[1].cli

\* the same for the runs whose first two outputs do not start with the same call
EquivalentAfterReset ==
    (fn = "run_guards" /\ output # <<>> /\ Len(input) >= 2
        /\ parse_tool_calls(input[1]) # <<>> /\ parse_tool_calls(input[2]) # <<>>
        /\ parse_tool_calls(input[1])[1] # parse_tool_calls(input[2])[1]) =>
        output[1].bot = output[1].cli

\* four identical outputs: the bot has aborted at the fourth, the CLI has executed it
FourthCallDiffers ==
    /\ fn = "run_guards" /\ output # <<>>
    /\ input = <<<<CallA>>, <<CallA>>, <<CallA>>, <<CallA>>>>
    /\ output[1].bot = [ends |-> "ABORTED", round |-> 4, executed |-> 3]
    /\ output[1].cli = [ends |-> "MORE", round |-> 5, executed |-> 4]


\* ---------------------------------------------------------------------------
\* C36
\* ingest is past the relevance gate and a successful thread fetch
PastFetch == pc \in {"search", "generate", "tools", "followup", "post", "panicked"}

\* C36: once an event has passed the gate and the thread fetch has succeeded, ingest never
\* panics on an empty sequence: the thread messages and the texts embedded for them are
\* non-empty, also when posts whose record does not decode were dropped.
C36_NoEmptyPanic ==
    /\ pc # "panicked"
    /\ PastFetch =>
          /\ thread # <<>>
          /\ \A c \in Range(embedLog) : c.what = "thread" => c.texts # <<>>

\* a panic is the panic of the empty thread, and every other turn past the fetch has a
\* non-empty thread
PanicOnlyOfEmptyThread ==
    /\ pc = "panicked" =>
          post_data = <<>> /\ thread = <<>> /\ result = <<"Panic", "vecs.last().unwrap()">>
    /\ (PastFetch /\ pc # "panicked") => thread # <<>>

\* the panic of vecs.last().unwrap() has happened, and no metric was recorded
UnwrapPanicked ==
    /\ pc = "panicked" /\ result = <<"Panic", "vecs.last().unwrap()">>
    /\ fetchLog # <<>> /\ thread = <<>>
    /\ ingest_latency = 0 /\ posts_ingested = 0 /\ ingest_errors = 0


\* ---------------------------------------------------------------------------
\* C37
\* the entry a stored point was written from has come back
SameEntry(e, point) ==
    /\ e.id = point.id /\ e.content = point.payload.content /\ e.tags = point.payload.tags
    /\ e.role = point.payload.role /\ e.entry_type = point.payload.entry_type
    /\ e.conversation_id = point.payload.conversation_id
    /\ e.timestamp = point.payload.timestamp

\* C37: an entry written with put or put_batch and then found by get_similar or
\* get_by_filter is returned as a MemoryEntry with the id, content, tags, role, entry_type,
\* conversation_id and timestamp it was stored with; a non-empty search result never makes
\* the read fail.
C37_RoundTrip ==
    (fn = "get_similar" /\ output # <<>>) =>
        /\ output[1].ok
        /\ Len(Val(output[1])) = Len(input)
        /\ \A i \in DOMAIN input : SameEntry(Val(output[1])[i], input[i])

\* a read succeeds exactly when the search found nothing
ReadFailsOnAnyHit ==
    (fn = "get_similar" /\ output # <<>>) => (output[1].ok <=> input = <<>>)

\* an entry was put, the search found it, and the read failed
StoredEntryUnreadable ==
    /\ fn = "get_similar" /\ Len(input) = 1 /\ input = vdb
    /\ output = <<Err(Str("missing field"))>>


\* ---------------------------------------------------------------------------
\* C38
\* the triggering post as a strong reference: its at:// URI and its content id
TriggeringPost ==
    StrongRef(AtUri(event.did, Unwrap(event.commit).collection, Unwrap(event.commit).rkey),
              Unwrap(event.commit).cid[1])

\* the root of the conversation of the triggering post
ConversationRoot ==
    IF IsSome(Unwrap(riposte).reply) THEN Unwrap(Unwrap(riposte).reply).root ELSE TriggeringPost

\* C38: the reply reference of the agent's reply has the triggering post (URI and content
\* id) as parent; its root is the root of the triggering post's reply reference when that
\* post is a reply and the triggering post itself otherwise; the conversation_id of the
\* exchange is derived from that root.
C38_ReplyRef ==
    /\ \A i \in DOMAIN created :
          /\ IsSome(created[i].reply)
          /\ Unwrap(created[i].reply).parent = TriggeringPost
          /\ Unwrap(created[i].reply).root = ConversationRoot
    /\ \A j \in DOMAIN memtries :
          memtries[j].conversation_id = UuidV5(UriText(ConversationRoot.uri))

\* the agent has answered a reply in bob's thread, and the exchange is filed under that root
C38_Witness ==
    /\ created # <<>> /\ memtries # <<>>
    /\ IsSome(Unwrap(riposte).reply)
    /\ Unwrap(created[1].reply).root = RootPost
    /\ Unwrap(created[1].reply).parent.uri = AtUri(Alice, Collection, "3kpost")
    /\ memtries[1].conversation_id = UuidV5(UriText(RootPost.uri))


\* ---------------------------------------------------------------------------
\* C39
\* C39: after any sequence of add_tool and remove_tool calls, a remove_tool(name) that
\* returned Ok leaves no tool of that name registered: find_tool(name) is None and
\* list_tools does not hold the name; a remove_tool(name) that returned an error has left
\* the registry as it was.
C39_RemoveRemoves ==
    /\ []((fn = "remove_tool" /\ output[1].ok) =>
             (find_tool(input) = None /\ input \notin Range(list_tools)))
    /\ [][(fn' = "remove_tool" /\ ~output'[1].ok) => service'.tools = service.tools]_vars

\* the statement for the registries in which no name is registered twice
RemoveRemovesWithoutDuplicates ==
    [][(fn' = "remove_tool" /\ output'[1].ok
          /\ Cardinality(Range(service.tools)) = Len(service.tools)) =>
          (find_tool(input)' = None /\ input' \notin Range(list_tools)')]_vars

\* a failed remove_tool changes nothing
FailedRemoveChangesNothing ==
    [][(fn' = "remove_tool" /\ ~output'[1].ok) => service'.tools = service.tools]_vars

\* a tool was removed and a tool of that name is still registered
RemovedToolStillThere ==
    fn = "remove_tool" /\ output[1].ok /\ find_tool(input) = Some(input)


\* ---------------------------------------------------------------------------
\* C40
\* a delimited block with a call type, a tool name and a JSON object of arguments
WellFormed(piece) == piece.raw = "directive" /\ IsSome(from_str(piece.args))

\* the calls of the well-formed directives of an output, in their order of appearance
RECURSIVE CallsOf(_)
CallsOf(response) ==
    IF response = <<>> THEN <<>>
    ELSE (IF WellFormed(Head(response))
          THEN <<ToolCall(Head(response).type, Head(response).name,
                          Unwrap(from_str(Head(response).args)))>>
          ELSE <<>>) \o CallsOf(Tail(response))

\* C40: parse_tool_calls returns the well-formed directives of a model output in their
\* order of appearance; a directive whose arguments are not valid JSON is dropped without
\* an error and without an effect on the others, so an output whose only directives are
\* malformed holds no tool call.
C40_ParseWellFormed ==
    (fn = "parse_tool_calls" /\ output # <<>>) => output[1] = CallsOf(input)

\* the same for the outputs whose directives have the closing fence followed at once by
\* the end marker and the arguments on one line
ParseOfFenceEnd ==
    (fn = "parse_tool_calls" /\ output # <<>>
        /\ \A i \in DOMAIN input : input[i].raw = "directive" => input[i].layout = "fence_end")
    => output[1] = CallsOf(input)

\* a directive in the format of the system prompt was parsed, and no call was found
PromptFormatNotParsed ==
    /\ fn = "parse_tool_calls"
    /\ input = <<RawDirective("function", "calculator", "{expr:2+2}", "fence_newline_end")>>
    /\ output = <<<<>>>>

\* a malformed directive between two well-formed ones was dropped, the two were returned
MalformedDropped ==
    /\ fn = "parse_tool_calls"
    /\ input = <<RawDirective("function", "calculator", "{expr:2+2}", "fence_end"),
                 RawDirective("function", "calculator", "{expr}", "fence_end"),
                 RawDirective("function", "calculator", "{}", "fence_end")>>
    /\ output = <<<<ToolCall("function", "calculator", "obj(expr=2+2)"),
                    ToolCall("function", "calculator", "obj()")>>>>

=============================================================================
